---------------------------- MODULE Spec2Model ----------------------------
(***************************************************************************)
(* Verification model of somesup-cloud: article clustering                 *)
(* (src/src/clustering_articles, terraform/src/clustering_articles), the   *)
(* embedding batcher (GeminiClient) and the user-embedding aggregator      *)
(* (calculate_user_embeddings, recalculate_user_embeddings), the HTTP      *)
(* entry points, the summarizer's save (cluster_summarizer) and the        *)
(* fetcher's store_articles (src/src/guardian_fetcher).                    *)
(*                                                                         *)
(* Conventions.  Floating-point vectors are modelled by integer vectors    *)
(* and exact rational arithmetic; rounding is not modelled.  A Python      *)
(* None and an empty list are both falsy and the code only ever tests the  *)
(* truthiness of embedding_vector, so both are modelled by the empty       *)
(* sequence NoneVec.                                                       *)
(***************************************************************************)
EXTENDS Integers, Sequences, FiniteSets, TLC

VARIABLES
    strategy,            \* which cluster_articles runs: "threshold" | "hdbscan"
    articles,            \* the input list of SimpleArticle of cluster_articles
    similarity_threshold,\* ClusterClient._similarity_threshold, a rational p/q
    valid_articles,      \* local of cluster_articles
    scan_i,              \* loop variable i of the scan (1-based)
    used_indices,        \* local of cluster_articles (threshold)
    clusters,            \* local / return value: sequence of sequences of article ids
    labels,              \* result of clusterer.fit_predict (hdbscan)
    cluster_pc,          \* position inside cluster_articles
    \* --- GeminiClient (terraform/src/clustering_articles) ---
    embed_articles,      \* the list `articles` handed to map_embeddings
    max_content_length,  \* GeminiClient._max_content_length
    max_batch_size,      \* GeminiClient._max_batch_size
    batches,             \* local of map_embeddings
    batch_idx,           \* loop position of map_embeddings (1-based)
    article_index,       \* local counter of map_embeddings
    batch_log,           \* per processed batch: the provider's answers
    embed_pc,            \* position inside map_embeddings
    \* --- user embeddings (calculate_ / recalculate_user_embeddings) ---
    p_article_embedding, \* BigQuery table: article id -> embedding_vector
    processed_article,   \* MySQL table: article id -> section_id
    section_preference,  \* MySQL table: user id -> (section_id -> preference)
    likes,               \* MySQL table `like`: user id -> article ids
    scraps,              \* MySQL table scrap: user id -> article ids
    detail_views,        \* MySQL DETAIL_VIEW events: user id -> article ids
    section_avg_embeddings, \* BigQuery table: section_id -> avg_embedding_vector
    single_user,         \* user_id of the recalculate request (0: none yet)
    single_emb,          \* emb of generate_user_embedding (interaction path)
    single_result,       \* return value of generate_user_embedding
    bulk_result,         \* return value of generate_all_user_embeddings
    user_pc,             \* which of the two functions have run
    \* --- the HTTP entry points (main) ---
    entry,               \* which main handles the request
    env,                 \* the names of the environment variables that are set
    request_user,        \* userId of the request body (0: absent)
    batch_size_bq_upsert,\* Config.BATCH_SIZE_BQ_UPSERT
    entry_pc,            \* position inside main
    work_log,            \* the work main has attempted so far
    user_embeddings,     \* local of main: the generator's return value
    pending_batches,     \* chunks of upsert_user_embeddings_batch still to merge
    user_embedding_table,\* BigQuery table: user id -> embedding_vector
    response,            \* what main returned
    \* --- cluster_summarizer: ArticleSummarizer.process_articles ---
    source_articles,     \* the rows get_articles returned, with the image at each URL
    ai_keywords,         \* ai_response.keywords
    best_thumbnail_url,  \* local of process_articles
    new_thumbnail_url,   \* processed_article.thumbnail_url (0: not built yet)
    summarizer_db,       \* MySQL: the committed rows
    summarizer_tx,       \* MySQL: the uncommitted writes of the open connection
    keyword_idx,         \* position in the keyword_ids comprehension (1-based)
    mapping_idx,         \* position in the keyword mapping loop (1-based)
    bq_uploaded,         \* whether upload_embedding_to_bq has inserted the row
    summarizer_pc,       \* position inside process_articles
    \* --- src/src/guardian_fetcher: DatabaseClient.store_articles ---
    fetched,             \* the list `articles`, as headlines
    article_table_before,\* MySQL article table when the call starts
    article_table,       \* MySQL article table: the committed headlines
    store_tx,            \* the uncommitted inserts of conn
    store_i,             \* loop position of store_articles (1-based)
    stored_count,        \* local of store_articles
    store_returned,      \* the return value (-1: not returned yet)
    store_pc             \* position inside store_articles

clusterVars == <<strategy, articles, similarity_threshold, valid_articles,
                 scan_i, used_indices, clusters, labels, cluster_pc>>

embedVars == <<embed_articles, max_content_length, max_batch_size, batches,
               batch_idx, article_index, batch_log, embed_pc>>

userTables == <<p_article_embedding, processed_article, section_preference,
                likes, scraps, detail_views, section_avg_embeddings>>

userVars == <<userTables, single_user, single_emb, single_result, bulk_result, user_pc>>

entryVars == <<entry, env, request_user, batch_size_bq_upsert, entry_pc, work_log,
               user_embeddings, pending_batches, user_embedding_table, response>>

summarizerVars == <<source_articles, ai_keywords, best_thumbnail_url, new_thumbnail_url,
                    summarizer_db, summarizer_tx, keyword_idx, mapping_idx, bq_uploaded,
                    summarizer_pc>>

storeVars == <<fetched, article_table_before, article_table, store_tx, store_i,
               stored_count, store_returned, store_pc>>

vars == <<clusterVars, embedVars, userVars, entryVars, summarizerVars, storeVars>>

\* What a run of one component leaves alone.
nonClusterVars == <<embedVars, userVars, entryVars, summarizerVars, storeVars>>

nonEmbedVars == <<clusterVars, userVars, entryVars, summarizerVars, storeVars>>

nonUserVars == <<clusterVars, embedVars, entryVars, summarizerVars, storeVars>>

nonEntryVars == <<clusterVars, embedVars, userVars, summarizerVars, storeVars>>

nonSummarizerVars == <<clusterVars, embedVars, userVars, entryVars, storeVars>>

nonStoreVars == <<clusterVars, embedVars, userVars, entryVars, summarizerVars>>

-----------------------------------------------------------------------------
(* Generic helpers                                                         *)

\* The values a component's variables hold in a run of another component.
ClusterIdle ==
    /\ strategy = "none" /\ articles = << >> /\ similarity_threshold = [p |-> 0, q |-> 1]
    /\ valid_articles = << >> /\ scan_i = 1 /\ used_indices = {} /\ clusters = << >>
    /\ labels = << >> /\ cluster_pc = "idle"

EmbedIdle ==
    /\ embed_articles = << >> /\ max_content_length = 0 /\ max_batch_size = 0
    /\ batches = << >> /\ batch_idx = 1 /\ article_index = 0 /\ batch_log = << >>
    /\ embed_pc = "idle"

NoneVec == << >>

Range(s) == {s[k] : k \in 1..Len(s)}

RECURSIVE SumSeq(_)
SumSeq(s) == IF s = << >> THEN 0 ELSE Head(s) + SumSeq(Tail(s))

RECURSIVE Concat(_)
Concat(ss) == IF ss = << >> THEN << >> ELSE Head(ss) \o Concat(Tail(ss))

Dot(a, b) == SumSeq([k \in 1..Len(a) |-> a[k] * b[k]])

IsZeroVec(v) == \A k \in 1..Len(v) : v[k] = 0

RECURSIVE SeqsUpTo(_, _)
SeqsUpTo(S, n) ==
    IF n = 0 THEN {<< >>}
    ELSE LET shorter == SeqsUpTo(S, n - 1)
         IN  shorter \cup {Append(s, x) : s \in {t \in shorter : Len(t) = n - 1}, x \in S}

UserIdle ==
    /\ p_article_embedding = << >> /\ processed_article = << >>
    /\ section_preference = << >> /\ likes = << >> /\ scraps = << >>
    /\ detail_views = << >> /\ section_avg_embeddings = << >>
    /\ single_user = 0 /\ single_emb = << >> /\ single_result = << >>
    /\ bulk_result = << >> /\ user_pc = "idle"

EntryIdle ==
    /\ entry = "none" /\ env = {} /\ request_user = 0 /\ batch_size_bq_upsert = 0
    /\ entry_pc = "idle" /\ work_log = {} /\ user_embeddings = << >>
    /\ pending_batches = << >> /\ user_embedding_table = << >> /\ response = << >>

\* No uncommitted write, and no row of this call.
NoRows == [processed |-> {}, keywords |-> {}, mappings |-> {}, marked |-> {}]

SummarizerIdle ==
    /\ source_articles = << >> /\ ai_keywords = << >> /\ best_thumbnail_url = 0
    /\ new_thumbnail_url = 0 /\ summarizer_db = NoRows /\ summarizer_tx = NoRows
    /\ keyword_idx = 1 /\ mapping_idx = 1 /\ bq_uploaded = FALSE
    /\ summarizer_pc = "idle"

StoreIdle ==
    /\ fetched = << >> /\ article_table_before = {} /\ article_table = {}
    /\ store_tx = {} /\ store_i = 1 /\ stored_count = 0 /\ store_returned = -1
    /\ store_pc = "idle"

-----------------------------------------------------------------------------
(* Clustering: inputs                                                      *)

MaxArticles == 4

\* Embedding values an article can carry when cluster_articles is called.
EmbeddingPool ==
    { NoneVec,            \* no embedding
      <<0, 0, 0>>,        \* the all-zero sentinel
      <<3, 1, 0>>, <<1, 1, 0>>, <<1, 3, 0>>,
      <<0, 1, 1>>,        \* cosine 0.5 with <<1,1,0>>
      <<1, -1, 0>> }      \* non-zero, components sum to 0

\* SIMILARITY_THRESHOLD values, as rationals p/q.
Thresholds == { [p |-> 8, q |-> 10], [p |-> 9, q |-> 10] }

NoThreshold == [p |-> 0, q |-> 1]

ArticleLists ==
    { [k \in 1..Len(es) |-> [id |-> k, embedding_vector |-> es[k]]] :
        es \in SeqsUpTo(EmbeddingPool, MaxArticles) }


-----------------------------------------------------------------------------
(* Strategy A: similarity-threshold clustering (src/src/clustering_articles) *)

\* Python truthiness of article.embedding_vector: None and [] are falsy.
Truthy(v) == v # NoneVec

\* sklearn.metrics.pairwise.cosine_similarity(a, b) >= p/q, decided exactly.
\* sklearn normalises each row by its norm and leaves a zero row unchanged, so
\* the similarity with a zero vector is 0.
CosineAtLeast(a, b, t) ==
    IF IsZeroVec(a) \/ IsZeroVec(b)
    THEN t.p <= 0
    ELSE LET d == Dot(a, b)
             n == Dot(a, a) * Dot(b, b)
         IN  IF t.p >= 0
             THEN d >= 0 /\ t.q * t.q * d * d >= t.p * t.p * n
             ELSE d >= 0 \/ t.q * t.q * d * d <= t.p * t.p * n

\* valid_articles of the threshold implementation: truthy embeddings only.
ValidThreshold(as) == SelectSeq(as, LAMBDA a : Truthy(a.embedding_vector))

\* Variant: the anchor is not excluded from its own neighbours.
SimilarIndices_Reflexive(va, i, t) ==
    LET idx == [j \in 1..Len(va) |-> j]
    IN  SelectSeq(idx, LAMBDA j :
            CosineAtLeast(va[i].embedding_vector, va[j].embedding_vector, t))

\* Variant: neighbours of neighbours are collected too.
SimilarIndices_Transitive(va, i, t) ==
    LET idx == [j \in 1..Len(va) |-> j]
        near(a, b) == CosineAtLeast(va[a].embedding_vector, va[b].embedding_vector, t)
    IN  SelectSeq(idx, LAMBDA j :
            j # i /\ (near(i, j) \/ \E m \in 1..Len(va) : m # i /\ near(i, m) /\ near(m, j)))

\* similar_indices for anchor i: every j # i, in increasing order, whose
\* similarity to i reaches the threshold (used_indices is not consulted).
SimilarIndices(va, i, t) ==
    LET idx == [j \in 1..Len(va) |-> j]
    IN  SelectSeq(idx, LAMBDA j :
            j # i /\ CosineAtLeast(va[i].embedding_vector,
                                   va[j].embedding_vector, t))

\* The cluster appended for anchor i, as a list of article ids.
ClusterOf(va, i, similar) ==
    <<va[i].id>> \o [k \in 1..Len(similar) |-> va[similar[k]].id]

\* cluster_articles up to the scan loop: the two early returns and the filter.
ThresholdBegin ==
    /\ strategy = "threshold"
    /\ cluster_pc = "begin"
    /\ LET va == ValidThreshold(articles)
       IN  /\ valid_articles' = va
           /\ cluster_pc' = IF articles = << >> \/ va = << >> THEN "done" ELSE "scan"
    /\ scan_i' = 1
    /\ used_indices' = {}
    /\ clusters' = << >>
    /\ UNCHANGED <<strategy, articles, similarity_threshold, labels, nonClusterVars>>

\* One iteration of `for i, article in enumerate(valid_articles)`.
ThresholdScan ==
    /\ strategy = "threshold"
    /\ cluster_pc = "scan"
    /\ scan_i <= Len(valid_articles)
    /\ IF scan_i \in used_indices
       THEN UNCHANGED <<clusters, used_indices>>
       ELSE LET similar == SimilarIndices(valid_articles, scan_i, similarity_threshold)
            IN  /\ clusters' = Append(clusters, ClusterOf(valid_articles, scan_i, similar))
                /\ used_indices' = used_indices \cup {scan_i} \cup Range(similar)
    /\ scan_i' = scan_i + 1
    /\ cluster_pc' = IF scan_i = Len(valid_articles) THEN "done" ELSE "scan"
    /\ UNCHANGED <<strategy, articles, similarity_threshold, valid_articles, labels,
                   nonClusterVars>>

-----------------------------------------------------------------------------
(* Strategy B: HDBSCAN clustering (terraform/src/clustering_articles)      *)

MIN_CLUSTER_SIZE == 2

\* Mutant: the filter without the test for the dummy (all-zero) embedding.
ValidHdbscan_NoZeroTest(as) == SelectSeq(as, LAMBDA a : a.embedding_vector # << >>)

\* valid_articles of the HDBSCAN implementation:
\* article.embedding_vector and sum(article.embedding_vector) != 0
ValidHdbscan(as) ==
    SelectSeq(as, LAMBDA a : Truthy(a.embedding_vector)
                             /\ SumSeq(a.embedding_vector) # 0)

\* The label vectors hdbscan.HDBSCAN(min_cluster_size=2).fit_predict can
\* return for n points: -1 is noise, clusters are numbered from 0 and each
\* has at least MIN_CLUSTER_SIZE members.  Which of them it returns is the
\* library's choice.
LabelVectors(n) ==
    { l \in [1..n -> -1..(n \div MIN_CLUSTER_SIZE) - 1] :
        /\ \A c \in 0..(n \div MIN_CLUSTER_SIZE) - 1 :
              LET members == {k \in 1..n : l[k] = c}
              IN  members = {} \/ Cardinality(members) >= MIN_CLUSTER_SIZE
        /\ \A c \in 1..(n \div MIN_CLUSTER_SIZE) - 1 :
              (\E k \in 1..n : l[k] = c) => (\E k \in 1..n : l[k] = c - 1) }

\* Variant: the noise label is grouped like any other label.
RECURSIVE GroupByLabel_NoiseKept(_, _, _, _)
GroupByLabel_NoiseKept(va, l, k, acc) ==
    IF k > Len(va) THEN [c \in 1..Len(acc) |-> acc[c].members]
    ELSE IF \E c \in 1..Len(acc) : acc[c].label = l[k]
         THEN LET c == CHOOSE c \in 1..Len(acc) : acc[c].label = l[k]
              IN  GroupByLabel_NoiseKept(va, l, k + 1,
                     [acc EXCEPT ![c].members = Append(@, va[k].id)])
         ELSE GroupByLabel_NoiseKept(va, l, k + 1,
                     Append(acc, [label |-> l[k], members |-> <<va[k].id>>]))

\* list(clusters.values()) of the defaultdict filled in label order of first
\* appearance, noise skipped.
RECURSIVE GroupByLabel(_, _, _, _)
GroupByLabel(va, l, k, acc) ==
    \* acc: sequence of [label, members] in insertion order
    IF k > Len(va) THEN [c \in 1..Len(acc) |-> acc[c].members]
    ELSE IF l[k] = -1 THEN GroupByLabel(va, l, k + 1, acc)
    ELSE IF \E c \in 1..Len(acc) : acc[c].label = l[k]
         THEN LET c == CHOOSE c \in 1..Len(acc) : acc[c].label = l[k]
              IN  GroupByLabel(va, l, k + 1,
                     [acc EXCEPT ![c].members = Append(@, va[k].id)])
         ELSE GroupByLabel(va, l, k + 1,
                     Append(acc, [label |-> l[k], members |-> <<va[k].id>>]))

\* cluster_articles up to fit_predict: the two early returns and the filter.
HdbscanBegin ==
    /\ strategy = "hdbscan"
    /\ cluster_pc = "begin"
    /\ LET va == ValidHdbscan(articles)
       IN  /\ valid_articles' = va
           /\ cluster_pc' = IF articles = << >> \/ va = << >> THEN "done" ELSE "fit"
    /\ clusters' = << >>
    /\ UNCHANGED <<strategy, articles, similarity_threshold, scan_i, used_indices, labels,
                   nonClusterVars>>

\* fit_predict and the grouping of its labels into the returned clusters.
HdbscanFit ==
    /\ strategy = "hdbscan"
    /\ cluster_pc = "fit"
    /\ \E l \in LabelVectors(Len(valid_articles)) :
          /\ labels' = l
          /\ clusters' = GroupByLabel(valid_articles, l, 1, << >>)
    /\ cluster_pc' = "done"
    /\ UNCHANGED <<strategy, articles, similarity_threshold, valid_articles,
                   scan_i, used_indices, nonClusterVars>>

-----------------------------------------------------------------------------
(* Specification of the clustering runs                                    *)

ClusterInit ==
    /\ strategy \in {"threshold", "hdbscan"}
    /\ articles \in ArticleLists
    /\ similarity_threshold \in (IF strategy = "threshold" THEN Thresholds ELSE {NoThreshold})
    /\ valid_articles = << >>
    /\ scan_i = 1
    /\ used_indices = {}
    /\ clusters = << >>
    /\ labels = << >>
    /\ cluster_pc = "begin"
    /\ EmbedIdle
    /\ UserIdle
    /\ EntryIdle
    /\ SummarizerIdle
    /\ StoreIdle

ClusterNext == ThresholdBegin \/ ThresholdScan \/ HdbscanBegin \/ HdbscanFit

SpecCluster == ClusterInit /\ [][ClusterNext]_vars


-----------------------------------------------------------------------------
(* Claims about clustering                                                 *)

ClusterDone == cluster_pc = "done"

\* Number of times article id a occurs in the returned clusters.
Occurrences(a) ==
    LET flat == Concat(clusters)
    IN  Cardinality({k \in 1..Len(flat) : flat[k] = a})

InOutput(a) == Occurrences(a) >= 1

HasMissingEmbedding(a) == a.embedding_vector = NoneVec

HasZeroEmbedding(a) == a.embedding_vector # NoneVec /\ IsZeroVec(a.embedding_vector)

\* C1: when the similarity-threshold cluster_articles returns, every article
\* with a valid embedding is in exactly one output cluster and none is in two.
C1_ThresholdPartition ==
    (ClusterDone /\ strategy = "threshold") =>
        \A k \in 1..Len(articles) :
            Truthy(articles[k].embedding_vector) => Occurrences(articles[k].id) = 1

-----------------------------------------------------------------------------
(* GeminiClient: smart batches and map_embeddings                          *)
(* (terraform/src/clustering_articles)                                     *)

MaxEmbedArticles == 3

OUTPUT_DIMENSIONALITY == 768

max_tokens_per_batch == 18000

Min(a, b) == IF a <= b THEN a ELSE b

Max(a, b) == IF a >= b THEN a ELSE b

\* A title is modelled by its shape: `lead` whitespace characters followed by
\* `core` characters that neither start nor end with whitespace.
TitlePool ==
    { [lead |-> 2, core |-> 7],
      [lead |-> 0, core |-> 40000],
      [lead |-> 0, core |-> 80000] }

\* MAX_CONTENT_LENGTH: the default and a value above 4 * max_tokens_per_batch.
ContentLengths == {2000, 100000}

\* MAX_BATCH_SIZE as int(os.getenv(...)) can deliver it.
BatchSizes == {0, 2}

EmbedArticleLists ==
    { [k \in 1..Len(ts) |-> [id |-> k, title |-> ts[k], embedding_vector |-> NoneVec]] :
        ts \in SeqsUpTo(TitlePool, MaxEmbedArticles) }

\* len(article.title[:max_content_length].strip()): the slice keeps the first
\* mcl characters, strip() removes the leading whitespace that is left.
TruncateEmbedContents(article, mcl) ==
    Min(article.title.core, Max(0, mcl - article.title.lead))

\* len(content) // 4
EstimateTokenCount(content_len) == content_len \div 4

EstimatedTokens(article, mcl) == EstimateTokenCount(TruncateEmbedContents(article, mcl))

\* Mutant: the batch-size test off by one (> instead of >=).
BatchFull_OffByOne(current_token_count, estimated_tokens, current_len, mbs) ==
    \/ current_token_count + estimated_tokens > max_tokens_per_batch
    \/ current_len > mbs

\* Variant: the batch is closed at half the token budget.
BatchFull_HalfBudget(current_token_count, estimated_tokens, current_len, mbs) ==
    \/ 2 * (current_token_count + estimated_tokens) > max_tokens_per_batch
    \/ current_len >= mbs

\* The test that closes the current batch before an article is added.
BatchFull(current_token_count, estimated_tokens, current_len, mbs) ==
    \/ current_token_count + estimated_tokens > max_tokens_per_batch
    \/ current_len >= mbs

\* The loop of _create_smart_batches from article k on; a batch is a
\* sequence of positions in the input list.
RECURSIVE SmartBatchLoop(_, _, _, _, _, _, _)
SmartBatchLoop(as, mcl, mbs, k, bs, current_batch, current_token_count) ==
    IF k > Len(as)
    THEN IF current_batch # << >> THEN Append(bs, current_batch) ELSE bs
    ELSE LET estimated_tokens == EstimatedTokens(as[k], mcl)
         IN  IF BatchFull(current_token_count, estimated_tokens, Len(current_batch), mbs)
             THEN SmartBatchLoop(as, mcl, mbs, k + 1,
                      IF current_batch # << >> THEN Append(bs, current_batch) ELSE bs,
                      <<k>>, estimated_tokens)
             ELSE SmartBatchLoop(as, mcl, mbs, k + 1, bs,
                      Append(current_batch, k), current_token_count + estimated_tokens)

\* Mutant: the last batch is never appended.
CreateSmartBatches_NoLastBatch(as, mcl, mbs) ==
    LET bs == SmartBatchLoop(as, mcl, mbs, 1, << >>, << >>, 0)
    IN  SubSeq(bs, 1, Len(bs) - 1)

CreateSmartBatches(as, mcl, mbs) == SmartBatchLoop(as, mcl, mbs, 1, << >>, << >>, 0)

\* The vector the provider computes for an article's text.  Its first
\* component is the article's id, so that the model can tell from which text
\* a vector was computed; it has OUTPUT_DIMENSIONALITY components.
ProviderVectorOf ==
    [id \in 1..MaxEmbedArticles |->
        [k \in 1..OUTPUT_DIMENSIONALITY |-> IF k = 1 THEN id ELSE 0]]

ProviderVector(id) == ProviderVectorOf[id]

\* ContentEmbedding(values=[0.0] * self.OUTPUT_DIMENSIONALITY)
DummyEmbedding == [k \in 1..OUTPUT_DIMENSIONALITY |-> 0]

\* Mutant: the except branch leaves the articles without embedding.
MapDummyVector_Unassigned == << >>

\* [0.0] * 768 of map_embeddings' except branch
MapDummyVector == [k \in 1..768 |-> 0]

\* How the provider answers a batch call: the right number of embeddings;
\* a list of another length (empty for a single text); an exception whose
\* text mentions "token count"; any other exception.
BatchOutcomes == {"ok", "bad_count", "token_error", "error"}

\* How the provider answers a call for one text: one embedding; no
\* embedding; an exception.
SingleOutcomes == {"ok", "empty", "error"}

\* Variant: a call that returned nothing or raised adds no entry.
GetEmbeddingsIndividually_SkipFailed(batch, singles) ==
    LET ok == SelectSeq([k \in 1..Len(batch) |-> k], LAMBDA k : singles[k] = "ok")
    IN  [k \in 1..Len(ok) |-> ProviderVector(batch[ok[k]])]

\* _get_embeddings_individually: one entry per article, a dummy for each
\* call that returned nothing or raised.
GetEmbeddingsIndividually(batch, singles) ==
    [k \in 1..Len(batch) |->
        IF singles[k] = "ok" THEN ProviderVector(batch[k]) ELSE DummyEmbedding]

\* Mutant: no per-article fallback on a "token count" error.
GetEmbeddingsBatch_NoFallback(batch, outcome, singles) ==
    CASE outcome = "ok" ->
            [raised |-> FALSE, individually |-> FALSE,
             embeddings |-> [k \in 1..Len(batch) |-> ProviderVector(batch[k])]]
      [] outcome = "bad_count" ->
            [raised |-> FALSE, individually |-> FALSE,
             embeddings |-> [k \in 1..Len(batch) - 1 |-> ProviderVector(batch[k])]]
      [] OTHER ->
            [raised |-> TRUE, individually |-> FALSE, embeddings |-> << >>]

\* _get_embeddings_batch: [raised, embeddings, individually], where
\* individually says whether the per-article fallback ran inside it.
GetEmbeddingsBatch(batch, outcome, singles) ==
    CASE outcome = "ok" ->
            [raised |-> FALSE, individually |-> FALSE,
             embeddings |-> [k \in 1..Len(batch) |-> ProviderVector(batch[k])]]
      [] outcome = "bad_count" ->
            [raised |-> FALSE, individually |-> FALSE,
             embeddings |-> [k \in 1..Len(batch) - 1 |-> ProviderVector(batch[k])]]
      [] outcome = "token_error" /\ Len(batch) > 1 ->
            [raised |-> FALSE, individually |-> TRUE,
             embeddings |-> GetEmbeddingsIndividually(batch, singles)]
      [] OTHER ->
            [raised |-> TRUE, individually |-> FALSE, embeddings |-> << >>]

\* The body of map_embeddings' loop for one batch: [vectors, individually],
\* the vector assigned to each article of the batch and whether the
\* per-article calls were made.
ProcessBatch(batch, outcome, singles) ==
    LET r == GetEmbeddingsBatch(batch, outcome, singles)
    IN  IF r.raised
        THEN [individually |-> FALSE,
              vectors |-> [k \in 1..Len(batch) |-> MapDummyVector]]
        ELSE IF r.embeddings # << >> /\ Len(r.embeddings) = Len(batch)
        THEN [individually |-> r.individually, vectors |-> r.embeddings]
        ELSE [individually |-> TRUE,
              vectors |-> GetEmbeddingsIndividually(batch, singles)]

\* Whether the per-article provider calls are made for this batch outcome
\* (only then are their answers drawn).
CallsIndividually(batch, outcome) ==
    ProcessBatch(batch, outcome, [k \in 1..Len(batch) |-> "ok"]).individually

\* map_embeddings up to its loop: the early return and the batching.
MapBegin ==
    /\ embed_pc = "begin"
    /\ IF embed_articles = << >>
       THEN /\ embed_pc' = "done"
            /\ UNCHANGED batches
       ELSE /\ batches' = CreateSmartBatches(embed_articles, max_content_length,
                                             max_batch_size)
            /\ embed_pc' = "loop"
    /\ batch_idx' = 1
    /\ article_index' = 0
    /\ UNCHANGED <<embed_articles, max_content_length, max_batch_size, batch_log,
                   nonEmbedVars>>

\* One iteration of `for batch_idx, batch in enumerate(batches)`.
MapBatch ==
    /\ embed_pc = "loop"
    /\ batch_idx <= Len(batches)
    /\ LET batch == batches[batch_idx]
       IN  \E outcome \in BatchOutcomes :
           \E singles \in (IF CallsIndividually(batch, outcome)
                           THEN [1..Len(batch) -> SingleOutcomes]
                           ELSE {<< >>}) :
              LET r == ProcessBatch(batch, outcome, singles)
                  zipped == 1..Min(Len(batch), Len(r.vectors))
              IN  /\ embed_articles' =
                        [a \in 1..Len(embed_articles) |->
                            IF \E k \in zipped : batch[k] = a
                            THEN [embed_articles[a] EXCEPT !.embedding_vector =
                                    r.vectors[CHOOSE k \in zipped : batch[k] = a]]
                            ELSE embed_articles[a]]
                  /\ article_index' = article_index + Cardinality(zipped)
                  /\ batch_log' = Append(batch_log,
                        [batch |-> batch, outcome |-> outcome, singles |-> singles])
    /\ batch_idx' = batch_idx + 1
    /\ embed_pc' = IF batch_idx = Len(batches) THEN "done" ELSE "loop"
    /\ UNCHANGED <<max_content_length, max_batch_size, batches, nonEmbedVars>>

EmbedInit ==
    /\ embed_articles \in EmbedArticleLists
    /\ max_content_length \in ContentLengths
    /\ max_batch_size \in BatchSizes
    /\ batches = << >>
    /\ batch_idx = 1
    /\ article_index = 0
    /\ batch_log = << >>
    /\ embed_pc = "begin"
    /\ ClusterIdle
    /\ UserIdle
    /\ EntryIdle
    /\ SummarizerIdle
    /\ StoreIdle

EmbedNext == MapBegin \/ MapBatch

SpecEmbed == EmbedInit /\ [][EmbedNext]_vars


-----------------------------------------------------------------------------
(* Claims about the embedding batcher                                      *)

Batched == embed_pc \in {"loop", "done"} /\ embed_articles # << >>

\* len(text) // 4 summed over a batch, text being the truncated title.
BatchTokenSum(batch) ==
    SumSeq([k \in 1..Len(batch) |->
        TruncateEmbedContents(embed_articles[batch[k]], max_content_length) \div 4])

\* C3: concatenating the batches of _create_smart_batches in order gives the
\* input list (nothing dropped, duplicated or reordered) and no batch is empty.
C3_BatchesConcatToInput ==
    Batched =>
        /\ Concat(batches) = [k \in 1..Len(embed_articles) |-> k]
        /\ \A b \in 1..Len(batches) : batches[b] # << >>

\* C3 witness: an input split into several batches, one of them with two articles.
C3_Witness ==
    /\ Batched /\ Len(batches) >= 2
    /\ \E b \in 1..Len(batches) : Len(batches[b]) = 2

\* C4 (as stated): every batch holds at most max_batch_size articles and its
\* estimated token sum is at most 18000.
C4_BatchesRespectLimits ==
    Batched =>
        \A b \in 1..Len(batches) :
            /\ Len(batches[b]) <= max_batch_size
            /\ BatchTokenSum(batches[b]) <= 18000

\* C4 (amended): every batch holds at most max(1, max_batch_size) articles,
\* and its estimated token sum is at most 18000 unless it is a single article
\* whose own estimate exceeds 18000.
C4_LimitsExceptSingleton ==
    Batched =>
        \A b \in 1..Len(batches) :
            /\ Len(batches[b]) <= Max(1, max_batch_size)
            /\ BatchTokenSum(batches[b]) <= 18000 \/ Len(batches[b]) = 1

\* C4 witness: a batch closed by the size limit, a batch closed by the token
\* budget and an oversized single article, in runs that reached them.
C4_Witness ==
    /\ Batched /\ max_batch_size = 2 /\ Len(batches) = 2
    /\ Len(batches[1]) = 2 /\ BatchTokenSum(batches[1]) <= 18000
    /\ BatchTokenSum(batches[2]) > 18000

\* The 768-long all-zero vector the claims call the sentinel.
Sentinel768 == [k \in 1..768 |-> 0]

RetriedIndividually(e) ==
    /\ Len(e.singles) = Len(e.batch)
    /\ \A k \in 1..Len(e.batch) :
          e.singles[k] = "ok" =>
              embed_articles[e.batch[k]].embedding_vector = ProviderVector(e.batch[k])

C6_ProviderFailureNeverAborts ==
    /\ embed_pc = "loop" =>
          /\ batch_idx <= Len(batches)
          /\ Len(batch_log) = batch_idx - 1
    /\ (embed_pc = "done" /\ embed_articles # << >>) =>
          /\ Len(batch_log) = Len(batches)
          /\ article_index = Len(embed_articles)
          /\ \A a \in 1..Len(embed_articles) :
                LET v == embed_articles[a].embedding_vector
                IN  \/ v = ProviderVector(embed_articles[a].id)
                    \/ v = Sentinel768

\* C6 witness: a run that returned after a batch whose provider call raised
\* and a later batch that was embedded normally.
C6_Witness ==
    /\ embed_pc = "done"
    /\ \E m, n \in 1..Len(batch_log) :
          /\ m < n
          /\ batch_log[m].outcome = "error"
          /\ batch_log[n].outcome = "ok"
          /\ embed_articles[batch_log[n].batch[1]].embedding_vector
                = ProviderVector(batch_log[n].batch[1])


-----------------------------------------------------------------------------
(* User embeddings: vector arithmetic                                      *)
(* A list of floats is modelled by an exact rational vector num/den in     *)
(* lowest terms with den > 0, so that equal values are equal records.      *)

Abs(x) == IF x < 0 THEN -x ELSE x

RECURSIVE Gcd(_, _)
Gcd(a, b) == IF b = 0 THEN a ELSE Gcd(b, a % b)

RECURSIVE GcdSeq(_)
GcdSeq(s) == IF s = << >> THEN 0 ELSE Gcd(Abs(Head(s)), GcdSeq(Tail(s)))

Rat(num, den) ==
    LET sg == IF den < 0 THEN -1 ELSE 1
        g  == Gcd(GcdSeq(num), Abs(den))
    IN  [num |-> [k \in 1..Len(num) |-> (sg * num[k]) \div g],
         den |-> (sg * den) \div g]

\* np.array(emb) of a stored embedding
RatOfList(v) == Rat(v, 1)

\* vector * scalar
RatScale(a, w) == Rat([k \in 1..Len(a.num) |-> a.num[k] * w], a.den)

RatAdd(a, b) ==
    Rat([k \in 1..Len(a.num) |-> a.num[k] * b.den + b.num[k] * a.den], a.den * b.den)

\* vector / scalar, scalar # 0
RatDivide(a, w) == Rat(a.num, a.den * w)

\* np.sum(vs, axis=0) of a non-empty list
RECURSIVE RatSum(_)
RatSum(vs) == IF Len(vs) = 1 THEN vs[1] ELSE RatAdd(Head(vs), RatSum(Tail(vs)))

\* np.mean(np.array(vs), axis=0) of a non-empty list
RatMean(vs) == RatDivide(RatSum(vs), Len(vs))

\* Optional[...] = None
None == [none |-> TRUE]

\* The keys of a dict (a function) as a list in ascending order.
RECURSIVE SortedSeq(_)
SortedSeq(S) ==
    IF S = {} THEN << >>
    ELSE LET m == CHOOSE x \in S : \A y \in S : x <= y
         IN  <<m>> \o SortedSeq(S \ {m})

\* list(d.values())
Values(d) == LET ks == SortedSeq(DOMAIN d) IN [k \in 1..Len(ks) |-> d[ks[k]]]

-----------------------------------------------------------------------------
(* User embeddings: inputs                                                 *)

MaxInteractions == 2

LIKE_WEIGHT == 3

SCRAP_WEIGHT == 5

DETAIL_VIEW_WEIGHT == 2

SECTION_MEAN_SAMPLE_SIZE == 50

Users == {1, 2}

ArticleIds == {1, 2, 3}

Sections == {1, 2}

\* section_id of an article that has no row in processed_article
NoSection == 0

\* What the two tables hold for one article: its embedding (NoneVec: no
\* row, or an empty vector; all zeros: the vector stored for an article
\* the provider failed on) and its section (NoSection: no row).
ArticleKinds ==
    << [emb |-> <<1, 0>>, section |-> 1],
       [emb |-> <<0, 1>>, section |-> 2],
       [emb |-> NoneVec,  section |-> 1],
       [emb |-> <<1, 1>>, section |-> NoSection],
       [emb |-> <<0, 0>>, section |-> 2] >>

\* The catalogues: which kind each article is.  Article ids only name the
\* articles, so catalogues are taken up to renaming (kinds in id order).
Catalogues ==
    { c \in [ArticleIds -> 1..Len(ArticleKinds)] :
        \A a, b \in ArticleIds : a <= b => c[a] <= c[b] }

\* Preference values of user_article_section_preference: the column is
\* read with float() and not validated.
PrefValues == {-1, 0, 2}

PrefDicts == UNION { [S -> PrefValues] : S \in SUBSET Sections }

ActionKinds == {"like", "scrap", "view"}

\* The interactions of user 1 in the lookback window, oldest first.
InteractionLists == SeqsUpTo(ActionKinds \X ArticleIds, MaxInteractions)

\* The article ids of the interactions of one kind, in order.
OfKind(ia, kind) ==
    LET sel == SelectSeq(ia, LAMBDA x : x[1] = kind)
    IN  [k \in 1..Len(sel) |-> sel[k][2]]

-----------------------------------------------------------------------------
(* User embeddings: the database clients                                   *)

\* DatabaseClient.get_all_user_ids
GetAllUserIds == Users

\* BigQueryClient.get_p_article_embeddings_batch: rows of the requested
\* articles whose embedding_vector is not empty.
GetPArticleEmbeddingsBatch(article_ids) ==
    [a \in {x \in article_ids \cap DOMAIN p_article_embedding :
                p_article_embedding[x] # NoneVec} |-> p_article_embedding[a]]

\* DatabaseClient.get_article_sections_batch
GetArticleSectionsBatch(article_ids) ==
    [a \in article_ids \cap DOMAIN processed_article |-> processed_article[a]]

\* DatabaseClient.get_section_sample_articles: per section the ids of its
\* newest limit_per_section articles (ORDER BY id DESC).
GetSectionSampleArticles(limit_per_section) ==
    LET secs == {processed_article[a] : a \in DOMAIN processed_article}
        Desc(sid) == LET asc == SortedSeq({a \in DOMAIN processed_article :
                                              processed_article[a] = sid})
                     IN  [k \in 1..Len(asc) |-> asc[Len(asc) + 1 - k]]
    IN  [sid \in secs |-> SubSeq(Desc(sid), 1, Min(limit_per_section, Len(Desc(sid))))]


-----------------------------------------------------------------------------
(* User embeddings: recalculate_user_embeddings (one user)                 *)

ENABLE_L2_NORMALIZE == TRUE

\* Variant: an article without known section or preference weighs nothing.
Contribution_NoDefaultPreference(article_id, base_weight, article_embeddings, article_sections, user_section_preferences) ==
    IF article_id \notin DOMAIN article_embeddings
    THEN [skipped |-> TRUE]
    ELSE LET section_id == IF article_id \in DOMAIN article_sections
                           THEN article_sections[article_id] ELSE NoSection
             section_pref == IF /\ section_id # NoSection
                                /\ section_id \in DOMAIN user_section_preferences
                             THEN user_section_preferences[section_id] ELSE 0
             final_weight == base_weight * section_pref
         IN  [skipped |-> FALSE,
              weighted |-> RatScale(RatOfList(article_embeddings[article_id]),
                                    final_weight),
              final_weight |-> final_weight]

\* Variant: an article without embedding is zero-filled.
Contribution_ZeroFill(article_id, base_weight, article_embeddings, article_sections, user_section_preferences) ==
    LET section_id == IF article_id \in DOMAIN article_sections
                      THEN article_sections[article_id] ELSE NoSection
        section_pref == IF /\ section_id # NoSection
                           /\ section_id \in DOMAIN user_section_preferences
                        THEN user_section_preferences[section_id] ELSE 1
        final_weight == base_weight * section_pref
        emb == IF article_id \in DOMAIN article_embeddings
               THEN article_embeddings[article_id] ELSE <<0, 0>>
    IN  [skipped |-> FALSE,
         weighted |-> RatScale(RatOfList(emb), final_weight),
         final_weight |-> final_weight]

\* One iteration of the loop of _compute_user_embedding: what one
\* interaction with article_id under an action of weight base_weight adds.
Contribution(article_id, base_weight, article_embeddings, article_sections, user_section_preferences) ==
    IF article_id \notin DOMAIN article_embeddings
    THEN [skipped |-> TRUE]
    ELSE LET section_id == IF article_id \in DOMAIN article_sections
                           THEN article_sections[article_id] ELSE NoSection
             section_pref == IF /\ section_id # NoSection
                                /\ section_id \in DOMAIN user_section_preferences
                             THEN user_section_preferences[section_id] ELSE 1
             final_weight == base_weight * section_pref
         IN  [skipped |-> FALSE,
              weighted |-> RatScale(RatOfList(article_embeddings[article_id]),
                                    final_weight),
              final_weight |-> final_weight]

RECURSIVE ComputeLoop(_, _, _, _, _, _, _)
ComputeLoop(interactions, k, article_embeddings, article_sections, user_section_preferences, weighted_embeddings, total_weight) ==
    IF k > Len(interactions)
    THEN [weighted_embeddings |-> weighted_embeddings, total_weight |-> total_weight]
    ELSE LET c == Contribution(interactions[k][1], interactions[k][2],
                               article_embeddings, article_sections,
                               user_section_preferences)
         IN  IF c.skipped
             THEN ComputeLoop(interactions, k + 1, article_embeddings,
                              article_sections, user_section_preferences,
                              weighted_embeddings, total_weight)
             ELSE ComputeLoop(interactions, k + 1, article_embeddings,
                              article_sections, user_section_preferences,
                              Append(weighted_embeddings, c.weighted),
                              total_weight + c.final_weight)

\* Variant: a weight sum of 0 is not tested.
ComputeUserEmbedding_NoZeroWeightTest(liked_articles, scraped_articles, viewed_articles, article_embeddings, article_sections, user_section_preferences) ==
    LET interactions ==
            [k \in 1..Len(liked_articles) |-> <<liked_articles[k], LIKE_WEIGHT>>]
            \o [k \in 1..Len(scraped_articles) |-> <<scraped_articles[k], SCRAP_WEIGHT>>]
            \o [k \in 1..Len(viewed_articles) |-> <<viewed_articles[k], DETAIL_VIEW_WEIGHT>>]
        r == ComputeLoop(interactions, 1, article_embeddings, article_sections,
                         user_section_preferences, << >>, 0)
    IN  IF r.weighted_embeddings = << >>
        THEN None
        ELSE IF r.total_weight = 0
             THEN RatSum(r.weighted_embeddings)
             ELSE RatDivide(RatSum(r.weighted_embeddings), r.total_weight)

\* Variant: the weighted sum is not divided by the total weight.
ComputeUserEmbedding_NoDivision(liked_articles, scraped_articles, viewed_articles, article_embeddings, article_sections, user_section_preferences) ==
    LET interactions ==
            [k \in 1..Len(liked_articles) |-> <<liked_articles[k], LIKE_WEIGHT>>]
            \o [k \in 1..Len(scraped_articles) |-> <<scraped_articles[k], SCRAP_WEIGHT>>]
            \o [k \in 1..Len(viewed_articles) |-> <<viewed_articles[k], DETAIL_VIEW_WEIGHT>>]
        r == ComputeLoop(interactions, 1, article_embeddings, article_sections,
                         user_section_preferences, << >>, 0)
    IN  IF r.weighted_embeddings = << >> \/ r.total_weight = 0
        THEN None
        ELSE RatSum(r.weighted_embeddings)

\* _compute_user_embedding
ComputeUserEmbedding(liked_articles, scraped_articles, viewed_articles, article_embeddings, article_sections, user_section_preferences) ==
    LET interactions ==
            [k \in 1..Len(liked_articles) |-> <<liked_articles[k], LIKE_WEIGHT>>]
            \o [k \in 1..Len(scraped_articles) |-> <<scraped_articles[k], SCRAP_WEIGHT>>]
            \o [k \in 1..Len(viewed_articles) |-> <<viewed_articles[k], DETAIL_VIEW_WEIGHT>>]
        r == ComputeLoop(interactions, 1, article_embeddings, article_sections,
                         user_section_preferences, << >>, 0)
    IN  IF r.weighted_embeddings = << >> \/ r.total_weight = 0
        THEN None
        ELSE RatDivide(RatSum(r.weighted_embeddings), r.total_weight)

\* _section_preference_embedding
SectionPreferenceEmbedding(user_section_preferences, section_means) ==
    LET used == SelectSeq(SortedSeq(DOMAIN user_section_preferences),
                          LAMBDA sid : /\ sid \in DOMAIN section_means
                                       /\ user_section_preferences[sid] > 0)
        weighted == [k \in 1..Len(used) |->
                        RatScale(section_means[used[k]],
                                 user_section_preferences[used[k]])]
        total_w == SumSeq([k \in 1..Len(used) |-> user_section_preferences[used[k]]])
    IN  IF weighted = << >> \/ total_w <= 0
        THEN None
        ELSE RatDivide(RatSum(weighted), total_w)

\* Variant: the vector is returned as it is.
Postprocess_Raw(embedding) == embedding

\* _postprocess: the L2-normalised vector is the unit vector of the
\* embedding's direction, kept as the primitive integer vector of that
\* direction; a zero vector is returned as it is.
Postprocess(embedding) ==
    IF ~ENABLE_L2_NORMALIZE
    THEN embedding
    ELSE IF Dot(embedding.num, embedding.num) > 0
         THEN [unit |-> [k \in 1..Len(embedding.num) |->
                            embedding.num[k] \div GcdSeq(embedding.num)]]
         ELSE embedding

\* DatabaseClient.get_user_recent_likes / _scraps / _detail_views on the
\* given table
GetUserRecentLikes(likes_t, user_id) == likes_t[user_id]

GetUserRecentScraps(scraps_t, user_id) == scraps_t[user_id]

GetUserRecentDetailViews(views_t, user_id) == views_t[user_id]

\* DatabaseClient.get_user_section_preferences
GetUserSectionPreferences(user_id) == section_preference[user_id]

\* BigQueryClient.get_section_avg_embeddings
GetSectionAvgEmbeddings == section_avg_embeddings

\* generate_user_embedding over the given interaction tables: emb is the
\* value of the local emb (None when step 3 is not entered), result the
\* returned vector or None.
GenerateUserEmbedding(user_id, likes_t, scraps_t, views_t) ==
    LET user_likes == GetUserRecentLikes(likes_t, user_id)
        user_scraps == GetUserRecentScraps(scraps_t, user_id)
        user_views == GetUserRecentDetailViews(views_t, user_id)
        interacted_article_ids ==
            Range(user_likes) \cup Range(user_scraps) \cup Range(user_views)
        user_section_preferences == GetUserSectionPreferences(user_id)
        emb == IF interacted_article_ids # {}
               THEN ComputeUserEmbedding(
                        user_likes, user_scraps, user_views,
                        GetPArticleEmbeddingsBatch(interacted_article_ids),
                        GetArticleSectionsBatch(interacted_article_ids),
                        user_section_preferences)
               ELSE None
        section_means == GetSectionAvgEmbeddings
        cold_emb == SectionPreferenceEmbedding(user_section_preferences, section_means)
    IN  [emb |-> emb,
         result |->
            IF emb # None THEN Postprocess(emb)
            ELSE IF cold_emb = None
                 THEN IF DOMAIN section_means # {}
                      THEN Postprocess(RatMean(Values(section_means)))
                      ELSE None
                 ELSE Postprocess(cold_emb)]

-----------------------------------------------------------------------------
(* User embeddings: calculate_user_embeddings (all users)                  *)

Bulk_ENABLE_L2_NORMALIZE == TRUE

\* One iteration of the loop of _compute_user_embedding: what one
\* interaction with article_id under an action of weight base_weight adds.
Bulk_Contribution(article_id, base_weight, article_embeddings, article_sections, user_section_preferences) ==
    IF article_id \notin DOMAIN article_embeddings
    THEN [skipped |-> TRUE]
    ELSE LET section_id == IF article_id \in DOMAIN article_sections
                           THEN article_sections[article_id] ELSE NoSection
             section_pref == IF /\ section_id # NoSection
                                /\ section_id \in DOMAIN user_section_preferences
                             THEN user_section_preferences[section_id] ELSE 1
             final_weight == base_weight * section_pref
         IN  [skipped |-> FALSE,
              weighted |-> RatScale(RatOfList(article_embeddings[article_id]),
                                    final_weight),
              final_weight |-> final_weight]

RECURSIVE Bulk_ComputeLoop(_, _, _, _, _, _, _)
Bulk_ComputeLoop(interactions, k, article_embeddings, article_sections, user_section_preferences, weighted_embeddings, total_weight) ==
    IF k > Len(interactions)
    THEN [weighted_embeddings |-> weighted_embeddings, total_weight |-> total_weight]
    ELSE LET c == Bulk_Contribution(interactions[k][1], interactions[k][2],
                               article_embeddings, article_sections,
                               user_section_preferences)
         IN  IF c.skipped
             THEN Bulk_ComputeLoop(interactions, k + 1, article_embeddings,
                              article_sections, user_section_preferences,
                              weighted_embeddings, total_weight)
             ELSE Bulk_ComputeLoop(interactions, k + 1, article_embeddings,
                              article_sections, user_section_preferences,
                              Append(weighted_embeddings, c.weighted),
                              total_weight + c.final_weight)

\* _compute_user_embedding
Bulk_ComputeUserEmbedding(liked_articles, scraped_articles, viewed_articles, article_embeddings, article_sections, user_section_preferences) ==
    LET interactions ==
            [k \in 1..Len(liked_articles) |-> <<liked_articles[k], LIKE_WEIGHT>>]
            \o [k \in 1..Len(scraped_articles) |-> <<scraped_articles[k], SCRAP_WEIGHT>>]
            \o [k \in 1..Len(viewed_articles) |-> <<viewed_articles[k], DETAIL_VIEW_WEIGHT>>]
        r == Bulk_ComputeLoop(interactions, 1, article_embeddings, article_sections,
                         user_section_preferences, << >>, 0)
    IN  IF r.weighted_embeddings = << >> \/ r.total_weight = 0
        THEN None
        ELSE RatDivide(RatSum(r.weighted_embeddings), r.total_weight)

\* _section_preference_embedding
Bulk_SectionPreferenceEmbedding(user_section_preferences, section_means) ==
    LET used == SelectSeq(SortedSeq(DOMAIN user_section_preferences),
                          LAMBDA sid : /\ sid \in DOMAIN section_means
                                       /\ user_section_preferences[sid] > 0)
        weighted == [k \in 1..Len(used) |->
                        RatScale(section_means[used[k]],
                                 user_section_preferences[used[k]])]
        total_w == SumSeq([k \in 1..Len(used) |-> user_section_preferences[used[k]]])
    IN  IF weighted = << >> \/ total_w <= 0
        THEN None
        ELSE RatDivide(RatSum(weighted), total_w)

\* _postprocess: the L2-normalised vector is the unit vector of the
\* embedding's direction, kept as the primitive integer vector of that
\* direction; a zero vector is returned as it is.
Bulk_Postprocess(embedding) ==
    IF ~Bulk_ENABLE_L2_NORMALIZE
    THEN embedding
    ELSE IF Dot(embedding.num, embedding.num) > 0
         THEN [unit |-> [k \in 1..Len(embedding.num) |->
                            embedding.num[k] \div GcdSeq(embedding.num)]]
         ELSE embedding

\* _mean_embedding
MeanEmbedding(embeddings) ==
    RatMean([k \in 1..Len(embeddings) |-> RatOfList(embeddings[k])])

\* _calculate_section_means_sampled
CalculateSectionMeansSampled(section_sample_articles, sample_embeddings) ==
    LET Embs(sid) == SelectSeq(section_sample_articles[sid],
                               LAMBDA aid : aid \in DOMAIN sample_embeddings)
    IN  [sid \in {x \in DOMAIN section_sample_articles : Embs(x) # << >>} |->
            RatMean([k \in 1..Len(Embs(sid)) |->
                        RatOfList(sample_embeddings[Embs(sid)[k]])])]

\* DatabaseClient.get_recent_likes_by_user / _scraps_ / _detail_view_ on
\* the given table: only users with at least one row have a key.
GetRecentByUser(table) ==
    [u \in {x \in DOMAIN table : table[x] # << >>} |-> table[u]]

\* DatabaseClient.get_user_section_preferences_batch
GetUserSectionPreferencesBatch(user_ids) ==
    [u \in {x \in user_ids \cap DOMAIN section_preference :
               DOMAIN section_preference[x] # {}} |-> section_preference[u]]

\* dict.get(key, default)
GetOr(d, key, default) == IF key \in DOMAIN d THEN d[key] ELSE default

\* Variant: the cold-start step does not skip the users that already have
\* an interaction-based embedding.
GenerateAllUserEmbeddings_ColdOverwrites(likes_t, scraps_t, views_t) ==
    LET all_user_ids == GetAllUserIds
        likes_by == GetRecentByUser(likes_t)
        scraps_by == GetRecentByUser(scraps_t)
        views_by == GetRecentByUser(views_t)
        interacted_user_ids == DOMAIN likes_by \cup DOMAIN scraps_by \cup DOMAIN views_by
        interacted_article_ids ==
            UNION { Range(likes_by[u]) : u \in DOMAIN likes_by }
            \cup UNION { Range(scraps_by[u]) : u \in DOMAIN scraps_by }
            \cup UNION { Range(views_by[u]) : u \in DOMAIN views_by }
        article_embeddings_interacted == GetPArticleEmbeddingsBatch(interacted_article_ids)
        article_sections_interacted == GetArticleSectionsBatch(interacted_article_ids)
        user_section_preferences == GetUserSectionPreferencesBatch(all_user_ids)
        Emb(u) == Bulk_ComputeUserEmbedding(
                      GetOr(likes_by, u, << >>), GetOr(scraps_by, u, << >>),
                      GetOr(views_by, u, << >>),
                      article_embeddings_interacted, article_sections_interacted,
                      GetOr(user_section_preferences, u, << >>))
        step4 == {u \in interacted_user_ids : Emb(u) # None}
        section_sample_articles == GetSectionSampleArticles(SECTION_MEAN_SAMPLE_SIZE)
        sample_article_ids ==
            UNION { Range(section_sample_articles[sid]) :
                        sid \in DOMAIN section_sample_articles }
        sample_embeddings == GetPArticleEmbeddingsBatch(sample_article_ids)
        section_means == CalculateSectionMeansSampled(section_sample_articles,
                                                      sample_embeddings)
        global_mean_embedding ==
            IF DOMAIN sample_embeddings # {}
            THEN MeanEmbedding(Values(sample_embeddings)) ELSE None
        Cold(u) == LET prefs == GetOr(user_section_preferences, u, << >>)
                       cold_emb == Bulk_SectionPreferenceEmbedding(prefs, section_means)
                   IN  IF cold_emb = None /\ global_mean_embedding # None
                       THEN global_mean_embedding ELSE cold_emb
        step6 == {u \in all_user_ids : Cold(u) # None}
    IN  [u \in step4 \cup step6 |->
            IF u \in step6 THEN Bulk_Postprocess(Cold(u)) ELSE Bulk_Postprocess(Emb(u))]

\* generate_all_user_embeddings over the given interaction tables.
GenerateAllUserEmbeddings(likes_t, scraps_t, views_t) ==
    LET all_user_ids == GetAllUserIds
        likes_by == GetRecentByUser(likes_t)
        scraps_by == GetRecentByUser(scraps_t)
        views_by == GetRecentByUser(views_t)
        interacted_user_ids == DOMAIN likes_by \cup DOMAIN scraps_by \cup DOMAIN views_by
        interacted_article_ids ==
            UNION { Range(likes_by[u]) : u \in DOMAIN likes_by }
            \cup UNION { Range(scraps_by[u]) : u \in DOMAIN scraps_by }
            \cup UNION { Range(views_by[u]) : u \in DOMAIN views_by }
        article_embeddings_interacted == GetPArticleEmbeddingsBatch(interacted_article_ids)
        article_sections_interacted == GetArticleSectionsBatch(interacted_article_ids)
        user_section_preferences == GetUserSectionPreferencesBatch(all_user_ids)
        Emb(u) == Bulk_ComputeUserEmbedding(
                      GetOr(likes_by, u, << >>), GetOr(scraps_by, u, << >>),
                      GetOr(views_by, u, << >>),
                      article_embeddings_interacted, article_sections_interacted,
                      GetOr(user_section_preferences, u, << >>))
        step4 == {u \in interacted_user_ids : Emb(u) # None}
        section_sample_articles == GetSectionSampleArticles(SECTION_MEAN_SAMPLE_SIZE)
        sample_article_ids ==
            UNION { Range(section_sample_articles[sid]) :
                        sid \in DOMAIN section_sample_articles }
        sample_embeddings == GetPArticleEmbeddingsBatch(sample_article_ids)
        section_means == CalculateSectionMeansSampled(section_sample_articles,
                                                      sample_embeddings)
        global_mean_embedding ==
            IF DOMAIN sample_embeddings # {}
            THEN MeanEmbedding(Values(sample_embeddings)) ELSE None
        Cold(u) == LET prefs == GetOr(user_section_preferences, u, << >>)
                       cold_emb == Bulk_SectionPreferenceEmbedding(prefs, section_means)
                   IN  IF cold_emb = None /\ global_mean_embedding # None
                       THEN global_mean_embedding ELSE cold_emb
        step6 == {u \in all_user_ids \ step4 : Cold(u) # None}
    IN  [u \in step4 \cup step6 |->
            IF u \in step4 THEN Bulk_Postprocess(Emb(u)) ELSE Bulk_Postprocess(Cold(u))]

-----------------------------------------------------------------------------
(* User embeddings: the two entry points                                   *)

\* The tables before a run.  User 1 has any short interaction history and
\* any preferences; user 2 has liked articles 2 and 3, scrapped article 3
\* and has no preferences.
\* section_avg_embeddings holds the per-section means of the embedded
\* articles, the same vectors the bulk run samples.
UserInit ==
    /\ \E c \in Catalogues :
        /\ p_article_embedding =
              [a \in {x \in ArticleIds : ArticleKinds[c[x]].emb # NoneVec} |->
                  ArticleKinds[c[a]].emb]
        /\ processed_article =
              [a \in {x \in ArticleIds : ArticleKinds[c[x]].section # NoSection} |->
                  ArticleKinds[c[a]].section]
        /\ section_avg_embeddings =
              CalculateSectionMeansSampled(
                  GetSectionSampleArticles(SECTION_MEAN_SAMPLE_SIZE),
                  GetPArticleEmbeddingsBatch(ArticleIds))
    /\ \E prefs \in PrefDicts :
        section_preference = [u \in Users |-> IF u = 1 THEN prefs ELSE << >>]
    /\ \E ia \in InteractionLists :
        /\ likes = [u \in Users |-> IF u = 1 THEN OfKind(ia, "like") ELSE <<2, 3>>]
        /\ scraps = [u \in Users |-> IF u = 1 THEN OfKind(ia, "scrap") ELSE <<3>>]
        /\ detail_views = [u \in Users |-> IF u = 1 THEN OfKind(ia, "view") ELSE << >>]
    /\ single_user = 0
    /\ single_emb = None
    /\ single_result = None
    /\ bulk_result = << >>
    /\ user_pc = "begin"
    /\ ClusterIdle
    /\ EmbedIdle
    /\ EntryIdle
    /\ SummarizerIdle
    /\ StoreIdle

\* recalculate_user_embeddings.main for one user_id
RunSingle ==
    /\ user_pc = "begin"
    /\ \E user_id \in Users :
        LET r == GenerateUserEmbedding(user_id, likes, scraps, detail_views)
        IN  /\ single_user' = user_id
            /\ single_emb' = r.emb
            /\ single_result' = r.result
    /\ user_pc' = "single"
    /\ UNCHANGED <<userTables, bulk_result, nonUserVars>>

\* calculate_user_embeddings.main
RunBulk ==
    /\ user_pc = "single"
    /\ bulk_result' = GenerateAllUserEmbeddings(likes, scraps, detail_views)
    /\ user_pc' = "done"
    /\ UNCHANGED <<userTables, single_user, single_emb, single_result, nonUserVars>>

UserNext == RunSingle \/ RunBulk

SpecUser == UserInit /\ [][UserNext]_vars

UserDone == user_pc = "done"

-----------------------------------------------------------------------------
(* User embeddings: claims                                                 *)

\* What the bulk run holds for a user: the vector, or None without entry.
BulkResultOf(u) == IF u \in DOMAIN bulk_result THEN bulk_result[u] ELSE None

\* The section means the bulk run computes from its samples.
BulkSectionMeans ==
    CalculateSectionMeansSampled(
        GetSectionSampleArticles(SECTION_MEAN_SAMPLE_SIZE),
        GetPArticleEmbeddingsBatch(
            UNION { Range(GetSectionSampleArticles(SECTION_MEAN_SAMPLE_SIZE)[sid]) :
                      sid \in DOMAIN GetSectionSampleArticles(SECTION_MEAN_SAMPLE_SIZE) }))

\* C7: over the same interactions, article embeddings, article sections,
\* section preferences and section-mean vectors, the vector the bulk run
\* produces for a user equals the vector the single-user run produces for
\* that user (or both produce none), on every path.
C7_BulkEqualsSingle ==
    (UserDone /\ section_avg_embeddings = BulkSectionMeans)
        => BulkResultOf(single_user) = single_result

\* The articles a user interacted with, under any kind.
Interacted(u) == Range(likes[u]) \cup Range(scraps[u]) \cup Range(detail_views[u])

CountIn(seq, a) == Cardinality({k \in 1..Len(seq) : seq[k] = a})

\* preference(section of the article), 1 when the article has no known
\* section or the user has no preference for that section
PreferenceOf(u, a) ==
    IF a \in DOMAIN processed_article
       /\ processed_article[a] \in DOMAIN section_preference[u]
    THEN section_preference[u][processed_article[a]]
    ELSE 1

\* The sum of w over the user's interactions with article a, one w per
\* interaction and kind.
WeightOf(u, a) ==
    (3 * CountIn(likes[u], a) + 5 * CountIn(scraps[u], a)
        + 2 * CountIn(detail_views[u], a)) * PreferenceOf(u, a)

\* The interacted articles that have an embedding, in id order.
EmbeddedInteracted(u) == SortedSeq(Interacted(u) \cap DOMAIN p_article_embedding)

TotalWeightOf(u) ==
    SumSeq([k \in 1..Len(EmbeddedInteracted(u)) |-> WeightOf(u, EmbeddedInteracted(u)[k])])

\* sum of embedding(article) * w divided by the sum of the w
WeightedMeanOf(u) ==
    LET as == EmbeddedInteracted(u)
    IN  Rat([d \in 1..Len(p_article_embedding[as[1]]) |->
                SumSeq([k \in 1..Len(as) |->
                           WeightOf(u, as[k]) * p_article_embedding[as[k]][d]])],
            TotalWeightOf(u))

\* C8: the interaction-based embedding is the sum over every interaction of
\* all three kinds of embedding(article) * w divided by the sum of the w,
\* with w = base(kind) * preference(section), base like=3, scrap=5,
\* detail-view=2, preference 1 by default; an article under several kinds
\* counts once per kind.  Both copies of _compute_user_embedding.
C8_WeightedMeanOfInteractions ==
    /\ (user_pc # "begin" /\ TotalWeightOf(single_user) > 0)
          => single_emb = WeightedMeanOf(single_user)
    /\ UserDone =>
          \A u \in Users : TotalWeightOf(u) > 0 =>
              /\ Bulk_ComputeUserEmbedding(
                     likes[u], scraps[u], detail_views[u],
                     GetPArticleEmbeddingsBatch(Interacted(u)),
                     GetArticleSectionsBatch(Interacted(u)),
                     section_preference[u]) = WeightedMeanOf(u)
              /\ BulkResultOf(u) = Bulk_Postprocess(WeightedMeanOf(u))

\* Both runs are over, and they computed the embedding of a user who liked
\* and scrapped one article, liked another of a different embedding, and
\* so got (3 * e2 + 8 * e3) / 11.
C8_Witness ==
    /\ UserDone
    /\ \E a, b \in DOMAIN p_article_embedding :
        /\ p_article_embedding[a] # p_article_embedding[b]
        /\ CountIn(likes[single_user], a) = 1
        /\ CountIn(likes[single_user], b) = 1
        /\ CountIn(scraps[single_user], b) = 1
        /\ single_emb = Rat([d \in 1..2 |-> 3 * p_article_embedding[a][d]
                                             + 8 * p_article_embedding[b][d]], 11)
    /\ BulkResultOf(single_user) = single_result

\* The interaction table with article a removed from the rows of user u.
WithoutArticle(table, u, a) ==
    [table EXCEPT ![u] = SelectSeq(@, LAMBDA x : x # a)]

\* The interacted articles of a user that have no embedding.
Unembedded(u) == Interacted(u) \ DOMAIN p_article_embedding

\* C9: an interacted article without embedding is skipped, not zero-filled:
\* the user embedding equals the one computed from the same interactions
\* with that article removed, in the single-user run (raw and returned
\* vector) and in the bulk run.
C9_MissingEmbeddingSkipped ==
    /\ user_pc # "begin" =>
          \A a \in Unembedded(single_user) :
              LET r == GenerateUserEmbedding(
                           single_user,
                           WithoutArticle(likes, single_user, a),
                           WithoutArticle(scraps, single_user, a),
                           WithoutArticle(detail_views, single_user, a))
              IN  single_emb = r.emb /\ single_result = r.result
    /\ UserDone =>
          \A u \in Users : \A a \in Unembedded(u) :
              LET without == GenerateAllUserEmbeddings(
                                 WithoutArticle(likes, u, a),
                                 WithoutArticle(scraps, u, a),
                                 WithoutArticle(detail_views, u, a))
              IN  BulkResultOf(u) = IF u \in DOMAIN without THEN without[u] ELSE None

\* Both runs are over for a user who interacted with an article without
\* embedding and with an embedded one, and got an interaction-based vector.
C9_Witness ==
    /\ UserDone
    /\ Unembedded(single_user) # {}
    /\ EmbeddedInteracted(single_user) # << >>
    /\ single_emb # None
    /\ single_user \in DOMAIN bulk_result

\* The interaction tables with every row of user u removed.
WithoutUser(table, u) == [table EXCEPT ![u] = << >>]

\* C10: a user whose interactions give a weight sum of 0, or none of whose
\* interacted articles resolves to an embedding, gets exactly the result of
\* a user with zero interactions and the same section preferences, in the
\* single-user run and in the bulk run.
C10_FallThroughToColdStart ==
    /\ (user_pc # "begin" /\ Interacted(single_user) # {}
                          /\ TotalWeightOf(single_user) = 0)
          => single_result =
                GenerateUserEmbedding(single_user,
                                      WithoutUser(likes, single_user),
                                      WithoutUser(scraps, single_user),
                                      WithoutUser(detail_views, single_user)).result
    /\ UserDone =>
          \A u \in Users : (Interacted(u) # {} /\ TotalWeightOf(u) = 0) =>
              LET cold == GenerateAllUserEmbeddings(WithoutUser(likes, u),
                                                    WithoutUser(scraps, u),
                                                    WithoutUser(detail_views, u))
              IN  BulkResultOf(u) = IF u \in DOMAIN cold THEN cold[u] ELSE None

\* Both runs are over for a user whose only interaction is with an embedded
\* article of a section of preference 0, and who got a cold-start vector.
C10_Witness ==
    /\ UserDone
    /\ EmbeddedInteracted(single_user) # << >>
    /\ TotalWeightOf(single_user) = 0
    /\ single_emb = None
    /\ single_result # None
    /\ BulkResultOf(single_user) # None

\* The sections of preference > 0 of a user that have a section mean, in
\* id order.
PreferredSections(u, means) ==
    SortedSeq({sid \in DOMAIN section_preference[u] \cap DOMAIN means : section_preference[u][sid] > 0})

\* The three tiers of the cold-start vector over the given section means,
\* before normalisation.
ColdStartTiers(u, means) ==
    LET ps == PreferredSections(u, means)
    IN  IF ps # << >>
        THEN RatDivide(RatSum([k \in 1..Len(ps) |-> RatScale(means[ps[k]], section_preference[u][ps[k]])]),
                       SumSeq([k \in 1..Len(ps) |-> section_preference[u][ps[k]]]))
        ELSE IF DOMAIN means # {}
             THEN RatMean(Values(means))
             ELSE None

\* C11: the cold-start vector is the preference-weighted mean of the
\* section means over the sections of preference > 0 that have a mean;
\* only when that yields nothing, the unweighted mean of all available
\* section-mean vectors; only when no section mean exists, no result.  In
\* the single-user run and in the bulk run.
C11_ColdStartTiers ==
    /\ (user_pc # "begin" /\ TotalWeightOf(single_user) = 0) =>
          LET raw == ColdStartTiers(single_user, section_avg_embeddings)
          IN  single_result = IF raw = None THEN None ELSE Postprocess(raw)
    /\ UserDone =>
          \A u \in Users : TotalWeightOf(u) = 0 =>
              LET raw == ColdStartTiers(u, BulkSectionMeans)
              IN  BulkResultOf(u) = IF raw = None THEN None ELSE Bulk_Postprocess(raw)

\* The arguments generate_all_user_embeddings passes for user u give the
\* same lookups as these.
BulkEmbOf(u) ==
    Bulk_ComputeUserEmbedding(likes[u], scraps[u], detail_views[u],
                              GetPArticleEmbeddingsBatch(Interacted(u)),
                              GetArticleSectionsBatch(Interacted(u)),
                              section_preference[u])

\* No vector contributes to the interaction-based mean of u, or the sum of
\* the weights is <= 0.
NoInteractionMean(u) == EmbeddedInteracted(u) = << >> \/ TotalWeightOf(u) <= 0

\* C12: _compute_user_embedding and _section_preference_embedding return
\* None, never a vector, whenever no vector contributes or the sum of the
\* weights is <= 0.
C12_NoneWhenNoWeight ==
    /\ (user_pc # "begin" /\ Interacted(single_user) # {} /\ NoInteractionMean(single_user))
          => single_emb = None
    /\ UserDone =>
          \A u \in Users :
              /\ NoInteractionMean(u) => BulkEmbOf(u) = None
              /\ PreferredSections(u, section_avg_embeddings) = << >>
                    => SectionPreferenceEmbedding(section_preference[u], section_avg_embeddings) = None
              /\ PreferredSections(u, BulkSectionMeans) = << >>
                    => Bulk_SectionPreferenceEmbedding(section_preference[u], BulkSectionMeans) = None

\* l2Normalize of an integer vector: its unit vector, or the zero vector
\* unchanged.
UnitOf(v) ==
    IF \A k \in 1..Len(v) : v[k] = 0
    THEN [num |-> v, den |-> 1]
    ELSE [unit |-> [k \in 1..Len(v) |-> v[k] \div GcdSeq(v)]]

\* All interactions of u, of every kind.
AllInteractions(u) == likes[u] \o scraps[u] \o detail_views[u]

\* C13: a user with exactly one like on article X, no other interaction
\* and no section preference gets l2Normalize(embedding(X)); and a weighted
\* mean over a single (vector, weight > 0) pair is that vector, whatever
\* the weight.
C13_SinglePairIsTheVector ==
    user_pc # "begin" =>
        LET u == single_user
        IN  \A x \in DOMAIN p_article_embedding :
                (AllInteractions(u) = <<x>> /\ WeightOf(u, x) > 0) =>
                    /\ single_emb = RatOfList(p_article_embedding[x])
                    /\ BulkEmbOf(u) = RatOfList(p_article_embedding[x])
                    /\ (likes[u] = <<x>> /\ DOMAIN section_preference[u] = {})
                          => /\ single_result = UnitOf(p_article_embedding[x])
                             /\ UserDone => BulkResultOf(u) = UnitOf(p_article_embedding[x])

\* Both runs are over for a user whose only interaction is one like on an
\* embedded article and who has no section preference.
C13_Witness ==
    /\ UserDone
    /\ DOMAIN section_preference[single_user] = {}
    /\ \E x \in DOMAIN p_article_embedding :
        /\ likes[single_user] = <<x>>
        /\ AllInteractions(single_user) = <<x>>
        /\ single_result = UnitOf(p_article_embedding[x])

\* A vector of unit Euclidean norm.
IsUnit(r) ==
    /\ DOMAIN r = {"unit"}
    /\ \E k \in 1..Len(r.unit) : r.unit[k] # 0
    /\ GcdSeq(r.unit) = 1

\* The zero vector.
IsZero(r) == DOMAIN r = {"num", "den"} /\ \A k \in 1..Len(r.num) : r.num[k] = 0

\* The raw vector of the interaction path of u, when there is one.
RawInteractionMean(u) == IF TotalWeightOf(u) # 0 THEN WeightedMeanOf(u) ELSE None

\* C14: with normalisation enabled, every vector generate_user_embedding
\* returns and every value of the mapping generate_all_user_embeddings
\* returns, on every path, has unit norm, or is the zero vector when the
\* raw vector has norm 0.
C14_ResultsNormalised ==
    /\ (user_pc # "begin" /\ single_result # None) =>
          /\ IsUnit(single_result) \/ IsZero(single_result)
          /\ IsZero(single_result) =>
                IsZero(IF single_emb # None THEN single_emb
                       ELSE ColdStartTiers(single_user, section_avg_embeddings))
    /\ UserDone =>
          \A u \in DOMAIN bulk_result :
              /\ IsUnit(bulk_result[u]) \/ IsZero(bulk_result[u])
              /\ (IsZero(bulk_result[u]) /\ RawInteractionMean(u) # None)
                    => IsZero(RawInteractionMean(u))

\* Both runs are over; the single-user run returned a unit vector on the
\* global-mean path, and the bulk run holds a zero vector for a user whose
\* interacted articles all have an all-zero embedding.
C14_Witness ==
    /\ UserDone
    /\ single_emb = None
    /\ PreferredSections(single_user, section_avg_embeddings) = << >>
    /\ IsUnit(single_result)
    /\ \E u \in DOMAIN bulk_result : IsZero(bulk_result[u]) /\ IsZero(RawInteractionMean(u))

-----------------------------------------------------------------------------
(* The HTTP entry points of the clustering and user-embedding functions    *)

MaxEntryLikes == 1

Entries == {"calculate", "recalculate", "clustering", "clustering_threshold"}

\* The environment variables the four Config classes read without a usable
\* default.
ConfigNames ==
    {"PROJECT_ID", "INSTANCE_CONNECTION_NAME", "MYSQL_USERNAME", "MYSQL_PASSWORD",
     "RECOMMENDATION_DATASET", "P_ARTICLE_EMBEDDING_TABLE", "USER_EMBEDDING_TABLE",
     "SECTION_AVG_EMBEDDINGS_TABLE", "MYSQL_FETCHER_USERNAME", "MYSQL_FETCHER_PASSWORD"}

\* The environment: everything set, or one variable unset or empty.
Environments == {ConfigNames} \cup {ConfigNames \ {n} : n \in ConfigNames}

\* Variant: USER_EMBEDDING_TABLE is not validated.
ConfigChecked_NoUserEmbeddingTable(e) ==
    CASE e = "calculate" ->
            {"PROJECT_ID", "INSTANCE_CONNECTION_NAME", "MYSQL_USERNAME", "MYSQL_PASSWORD",
             "RECOMMENDATION_DATASET", "P_ARTICLE_EMBEDDING_TABLE"}
      [] e = "recalculate" ->
            {"PROJECT_ID", "INSTANCE_CONNECTION_NAME", "MYSQL_USERNAME", "MYSQL_PASSWORD",
             "RECOMMENDATION_DATASET", "P_ARTICLE_EMBEDDING_TABLE",
             "SECTION_AVG_EMBEDDINGS_TABLE"}
      [] OTHER ->
            {"PROJECT_ID", "INSTANCE_CONNECTION_NAME", "MYSQL_FETCHER_USERNAME",
             "MYSQL_FETCHER_PASSWORD"}

\* Config.validate of each function: the variables it tests.
ConfigChecked(e) ==
    CASE e = "calculate" ->
            {"PROJECT_ID", "INSTANCE_CONNECTION_NAME", "MYSQL_USERNAME", "MYSQL_PASSWORD",
             "RECOMMENDATION_DATASET", "P_ARTICLE_EMBEDDING_TABLE", "USER_EMBEDDING_TABLE"}
      [] e = "recalculate" ->
            {"PROJECT_ID", "INSTANCE_CONNECTION_NAME", "MYSQL_USERNAME", "MYSQL_PASSWORD",
             "RECOMMENDATION_DATASET", "P_ARTICLE_EMBEDDING_TABLE", "USER_EMBEDDING_TABLE",
             "SECTION_AVG_EMBEDDINGS_TABLE"}
      [] OTHER ->
            {"PROJECT_ID", "INSTANCE_CONNECTION_NAME", "MYSQL_FETCHER_USERNAME",
             "MYSQL_FETCHER_PASSWORD"}

\* The variables main hands to the clients it constructs.
ConfigUsed(e) ==
    CASE e = "calculate" ->
            {"INSTANCE_CONNECTION_NAME", "MYSQL_USERNAME", "MYSQL_PASSWORD", "PROJECT_ID",
             "RECOMMENDATION_DATASET", "P_ARTICLE_EMBEDDING_TABLE", "USER_EMBEDDING_TABLE"}
      [] e = "recalculate" ->
            {"INSTANCE_CONNECTION_NAME", "MYSQL_USERNAME", "MYSQL_PASSWORD", "PROJECT_ID",
             "RECOMMENDATION_DATASET", "P_ARTICLE_EMBEDDING_TABLE", "USER_EMBEDDING_TABLE",
             "SECTION_AVG_EMBEDDINGS_TABLE"}
      [] OTHER ->
            {"INSTANCE_CONNECTION_NAME", "MYSQL_FETCHER_USERNAME", "MYSQL_FETCHER_PASSWORD",
             "PROJECT_ID"}

\* Values of BATCH_SIZE_BQ_UPSERT, read with int() and not validated.
UpsertBatchSizes == {0, 1, 500}

\* The row the user-embedding table holds for a user before the run.
OldRow == [old |-> TRUE]

\* The database snapshots of a request: two articles of one kind and a
\* third one, user 1 with at most MaxEntryLikes likes and a preference for
\* section 1 or none, user 2 as before.
EntryCatalogues == {c \in Catalogues : c[1] = c[2]}

EntryPrefDicts == {<< >>, [sid \in {1} |-> 2]}

EntryLikes == SeqsUpTo(ArticleIds, MaxEntryLikes)

\* chunked
Chunked(seq, n) ==
    [k \in 1..((Len(seq) + n - 1) \div n) |->
        SubSeq(seq, (k - 1) * n + 1, Min(k * n, Len(seq)))]

\* list(user_embeddings.items())
Items(d) == LET ks == SortedSeq(DOMAIN d) IN [k \in 1..Len(ks) |-> <<ks[k], d[ks[k]]>>]

\* The MERGE of upsert_user_embeddings_bulk / upsert_user_embedding.
Merge(table, rows) ==
    [u \in DOMAIN table \cup {rows[k][1] : k \in 1..Len(rows)} |->
        IF \E k \in 1..Len(rows) : rows[k][1] = u
        THEN rows[CHOOSE k \in 1..Len(rows) : rows[k][1] = u][2]
        ELSE table[u]]

EntryInit ==
    /\ entry \in Entries
    /\ env \in Environments
    /\ request_user \in (IF entry = "recalculate" THEN {0} \cup Users ELSE {0})
    /\ batch_size_bq_upsert \in (IF entry = "calculate" THEN UpsertBatchSizes ELSE {500})
    /\ \E c \in EntryCatalogues, prefs \in EntryPrefDicts, ls \in EntryLikes :
        /\ entry \in {"clustering", "clustering_threshold"} =>
              (ls = << >> /\ prefs = << >> /\ \A a \in ArticleIds : c[a] = 1)
        /\ p_article_embedding =
              [a \in {x \in ArticleIds : ArticleKinds[c[x]].emb # NoneVec} |->
                  ArticleKinds[c[a]].emb]
        /\ processed_article =
              [a \in {x \in ArticleIds : ArticleKinds[c[x]].section # NoSection} |->
                  ArticleKinds[c[a]].section]
        /\ section_avg_embeddings =
              CalculateSectionMeansSampled(
                  GetSectionSampleArticles(SECTION_MEAN_SAMPLE_SIZE),
                  GetPArticleEmbeddingsBatch(ArticleIds))
        /\ section_preference = [u \in Users |-> IF u = 1 THEN prefs ELSE << >>]
        /\ likes = [u \in Users |-> IF u = 1 THEN ls ELSE <<2, 3>>]
        /\ scraps = [u \in Users |-> IF u = 1 THEN << >> ELSE <<3>>]
        /\ detail_views = [u \in Users |-> << >>]
    /\ single_user = 0 /\ single_emb = << >> /\ single_result = << >>
    /\ bulk_result = << >> /\ user_pc = "idle"
    /\ entry_pc = "start"
    /\ work_log = {}
    /\ user_embeddings = << >>
    /\ pending_batches = << >>
    /\ user_embedding_table = [u \in Users |-> OldRow]
    /\ response = << >>
    /\ ClusterIdle
    /\ EmbedIdle
    /\ SummarizerIdle
    /\ StoreIdle

\* main, up to the end of the try block around Config.validate
ValidateConfig ==
    /\ entry_pc = "start"
    /\ IF ConfigChecked(entry) \subseteq env
       THEN /\ entry_pc' = "validated"
            /\ response' = response
       ELSE /\ entry_pc' = "responded"
            /\ response' = [code |-> 500, message |-> "configuration"]
    /\ UNCHANGED <<entry, env, request_user, batch_size_bq_upsert, work_log,
                   user_embeddings, pending_batches, user_embedding_table, nonEntryVars>>

\* recalculate_user_embeddings.main: parsing the request body
ParseRequest ==
    /\ entry = "recalculate"
    /\ entry_pc = "validated"
    /\ IF request_user = 0
       THEN /\ entry_pc' = "responded"
            /\ response' = [code |-> 400, status |-> "error", message |-> "userId"]
       ELSE /\ entry_pc' = "parsed"
            /\ response' = response
    /\ UNCHANGED <<entry, env, request_user, batch_size_bq_upsert, work_log,
                   user_embeddings, pending_batches, user_embedding_table, nonEntryVars>>

\* recalculate_user_embeddings.main: clients and generate_user_embedding.
\* Any database or warehouse call may raise.
SingleGenerate ==
    /\ entry = "recalculate"
    /\ entry_pc = "parsed"
    /\ work_log' = work_log \cup {"clients", "database", "warehouse"}
    /\ \E outcome \in {"ok", "raise"} :
        LET user_embedding ==
                GenerateUserEmbedding(request_user, likes, scraps, detail_views).result
        IN  IF outcome = "raise"
            THEN /\ response' = [code |-> 500, status |-> "error", message |-> "exception"]
                 /\ entry_pc' = "responded"
                 /\ UNCHANGED <<user_embeddings, pending_batches>>
            ELSE IF user_embedding = None
            THEN /\ response' = [code |-> 500, status |-> "error", message |-> "no embedding"]
                 /\ entry_pc' = "responded"
                 /\ UNCHANGED <<user_embeddings, pending_batches>>
            ELSE /\ user_embeddings' = [u \in {request_user} |-> user_embedding]
                 /\ pending_batches' = <<<< <<request_user, user_embedding>> >>>>
                 /\ entry_pc' = "upserting"
                 /\ response' = response
    /\ UNCHANGED <<entry, env, request_user, batch_size_bq_upsert,
                   user_embedding_table, nonEntryVars>>

\* recalculate_user_embeddings.main: upsert_user_embedding and the response
SingleUpsert ==
    /\ entry = "recalculate"
    /\ entry_pc = "upserting"
    /\ work_log' = work_log \cup {"write"}
    /\ \E outcome \in {"ok", "raise"} :
        IF outcome = "raise"
        THEN /\ response' = [code |-> 500, status |-> "error", message |-> "exception"]
             /\ UNCHANGED <<pending_batches, user_embedding_table>>
        ELSE /\ user_embedding_table' = Merge(user_embedding_table, Head(pending_batches))
             /\ pending_batches' = << >>
             /\ response' = [code |-> 200, status |-> "success", userId |-> request_user]
    /\ entry_pc' = "responded"
    /\ UNCHANGED <<entry, env, request_user, batch_size_bq_upsert, user_embeddings,
                   nonEntryVars>>

\* calculate_user_embeddings.main: clients, generate_all_user_embeddings
\* and the start of upsert_user_embeddings_batch.  Any database or
\* warehouse call, or the computation of one user, may raise.
BulkGenerate ==
    /\ entry = "calculate"
    /\ entry_pc = "validated"
    /\ work_log' = work_log \cup {"clients", "database", "warehouse"}
    /\ \E outcome \in {"ok", "raise"} :
        LET generated == GenerateAllUserEmbeddings(likes, scraps, detail_views)
        IN  IF outcome = "raise" \/ (DOMAIN generated # {} /\ batch_size_bq_upsert <= 0)
            THEN /\ response' = [code |-> 500, status |-> "error", message |-> "exception"]
                 /\ entry_pc' = "responded"
                 /\ UNCHANGED <<user_embeddings, pending_batches>>
            ELSE IF DOMAIN generated = {}
            THEN /\ response' = [code |-> 200, status |-> "success", processed_users |-> 0]
                 /\ entry_pc' = "responded"
                 /\ user_embeddings' = generated
                 /\ UNCHANGED pending_batches
            ELSE /\ user_embeddings' = generated
                 /\ pending_batches' = Chunked(Items(generated), batch_size_bq_upsert)
                 /\ entry_pc' = "upserting"
                 /\ response' = response
    /\ UNCHANGED <<entry, env, request_user, batch_size_bq_upsert,
                   user_embedding_table, nonEntryVars>>

\* calculate_user_embeddings.main: one upsert_user_embeddings_bulk of the
\* loop of upsert_user_embeddings_batch, and the response after the last.
BulkUpsert ==
    /\ entry = "calculate"
    /\ entry_pc = "upserting"
    /\ work_log' = work_log \cup {"write"}
    /\ \E outcome \in {"ok", "raise"} :
        IF outcome = "raise"
        THEN /\ response' = [code |-> 500, status |-> "error", message |-> "exception"]
             /\ entry_pc' = "responded"
             /\ UNCHANGED <<pending_batches, user_embedding_table>>
        ELSE /\ user_embedding_table' = Merge(user_embedding_table, Head(pending_batches))
             /\ pending_batches' = Tail(pending_batches)
             /\ IF Tail(pending_batches) = << >>
                THEN /\ response' = [code |-> 200, status |-> "success",
                                     processed_users |-> Cardinality(DOMAIN user_embeddings)]
                     /\ entry_pc' = "responded"
                ELSE /\ response' = response
                     /\ entry_pc' = "upserting"
    /\ UNCHANGED <<entry, env, request_user, batch_size_bq_upsert, user_embeddings,
                   nonEntryVars>>

\* clustering_articles.main after the configuration test: clients, the
\* fetch of the unprocessed articles, map_embeddings and cluster_articles.
\* No exception is caught: a raise ends the request in the framework.
ClusteringRun ==
    /\ entry \in {"clustering", "clustering_threshold"}
    /\ entry_pc = "validated"
    /\ work_log' = work_log \cup {"clients", "database", "provider"}
    /\ \E outcome \in {"ok", "none found", "raise"} :
        response' = CASE outcome = "ok" -> [code |-> 200, status |-> "success"]
                      [] outcome = "none found" -> [code |-> 200, message |-> "none found"]
                      [] OTHER -> [code |-> 500, message |-> "unhandled"]
    /\ entry_pc' = "responded"
    /\ UNCHANGED <<entry, env, request_user, batch_size_bq_upsert, user_embeddings,
                   pending_batches, user_embedding_table, nonEntryVars>>

EntryNext ==
    \/ ValidateConfig
    \/ ParseRequest
    \/ SingleGenerate
    \/ SingleUpsert
    \/ BulkGenerate
    \/ BulkUpsert
    \/ ClusteringRun

SpecEntry == EntryInit /\ [][EntryNext]_vars

Responded == entry_pc = "responded"

-----------------------------------------------------------------------------
(* The HTTP entry points: claims                                           *)

\* The response reports an exception raised by a collaborator.
IsException(r) == "message" \in DOMAIN r /\ r.message = "exception"

\* The response reports an error.
IsError(r) == r.code >= 400 \/ ("status" \in DOMAIN r /\ r.status = "error")

\* No section mean exists and the user has no interaction that resolves to
\* an embedding.
NoResultCase(u) ==
    /\ u \in Users
    /\ DOMAIN section_avg_embeddings = {}
    /\ DOMAIN BulkSectionMeans = {}
    /\ EmbeddedInteracted(u) = << >>

\* C15: when no section mean exists and the user has no interaction that
\* resolves to an embedding, the outcome is a no-result that the caller
\* treats as no result, not as an error: unless a collaborator raised,
\* the single-user request and the bulk run report no error.
C15_NoResultIsNotAnError ==
    (Responded /\ ConfigChecked(entry) \subseteq env /\ ~IsException(response)) =>
        /\ (entry = "recalculate" /\ NoResultCase(request_user)) => ~IsError(response)
        /\ entry = "calculate" =>
              \A u \in Users : NoResultCase(u) =>
                  u \notin DOMAIN user_embeddings /\ ~IsError(response)

\* The users of the upsert batch on which the bulk run stopped.
FailedBatchUsers ==
    IF pending_batches = << >> THEN {}
    ELSE {Head(pending_batches)[k][1] : k \in 1..Len(Head(pending_batches))}

\* C16: a bulk run never aborts the whole run because one user's
\* computation or one upsert batch fails: the embeddings of the users
\* outside the failed batch are saved, and the response reports the counts
\* of succeeded, failed and skipped users.
C16_BulkRunNeverAborts ==
    (entry = "calculate" /\ Responded /\ ConfigChecked(entry) \subseteq env
        /\ batch_size_bq_upsert > 0 /\ "write" \in work_log) =>
        /\ \A u \in DOMAIN user_embeddings \ FailedBatchUsers :
              user_embedding_table[u] = user_embeddings[u]
        /\ {"succeeded", "failed", "skipped"} \subseteq DOMAIN response

\* The rows this run has written to the user-embedding table.
WrittenByRun == {u \in DOMAIN user_embedding_table : user_embedding_table[u] # OldRow}

\* C17: a bulk run that ends with a failure leaves no partial state
\* visible: none of this run's user embeddings is in the user-embedding
\* table; all upserts of a run are visible or none.
C17_NoPartialStateAfterFailure ==
    (entry = "calculate" /\ Responded) =>
        /\ IsError(response) => WrittenByRun = {}
        /\ WrittenByRun = {} \/ WrittenByRun = DOMAIN user_embeddings

-----------------------------------------------------------------------------
(* Similarity-threshold clustering: output order and singletons            *)

\* cosine(a, b) >= t for a threshold t > 0, from the definition: the dot
\* product over the product of the norms; 0 when a norm is 0.
ReachesThreshold(a, b, t) ==
    /\ Dot(a, b) > 0
    /\ t.q * t.q * Dot(a, b) * Dot(a, b) >= t.p * t.p * Dot(a, a) * Dot(b, b)

\* The ids of the valid articles other than anchor that reach the threshold
\* with it, in input order.
NeighboursOf(anchor) ==
    LET ids == [k \in 1..Len(articles) |-> articles[k].id]
    IN  SelectSeq(ids, LAMBDA j :
            /\ j # anchor
            /\ Truthy(articles[j].embedding_vector)
            /\ ReachesThreshold(articles[anchor].embedding_vector,
                                articles[j].embedding_vector, similarity_threshold))

\* Each cluster lists its anchor first, then its neighbours in input order,
\* and the clusters are in the input order of their anchors.
ThresholdOutputOrder ==
    (ClusterDone /\ strategy = "threshold") =>
        /\ \A k \in 1..Len(clusters) :
              /\ Truthy(articles[Head(clusters[k])].embedding_vector)
              /\ Tail(clusters[k]) = NeighboursOf(Head(clusters[k]))
        /\ \A k \in 1..(Len(clusters) - 1) : Head(clusters[k]) < Head(clusters[k + 1])

\* The input is three articles with one and the same embedding, and the
\* threshold is 0.8.
ThreeIdentical ==
    /\ strategy = "threshold"
    /\ similarity_threshold = [p |-> 8, q |-> 10]
    /\ Len(articles) = 3
    /\ Truthy(articles[1].embedding_vector)
    /\ \A k \in 1..3 : articles[k].embedding_vector = articles[1].embedding_vector

OutputOrderAsComputed ==
    /\ ThresholdOutputOrder
    /\ (ClusterDone /\ ThreeIdentical) =>
          clusters = IF IsZeroVec(articles[1].embedding_vector)
                     THEN << <<1>>, <<2>>, <<3>> >>
                     ELSE << <<1, 2, 3>> >>

\* The scan of three identical non-zero embeddings has returned the one
\* cluster.
ThreeIdenticalNonZeroClustered ==
    /\ ClusterDone
    /\ ThreeIdentical
    /\ ~IsZeroVec(articles[1].embedding_vector)
    /\ clusters = << <<1, 2, 3>> >>

\* The valid article at position k reaches the threshold with no other
\* valid article.
Isolated(k) ==
    /\ Truthy(articles[k].embedding_vector)
    /\ \A j \in 1..Len(articles) :
          (j # k /\ Truthy(articles[j].embedding_vector)) =>
              ~ReachesThreshold(articles[k].embedding_vector,
                                articles[j].embedding_vector, similarity_threshold)

\* C20: a valid article whose similarity to every other valid article is
\* below the threshold is output as a singleton cluster and is in no other
\* cluster; two articles of cosine similarity 0.5 with threshold 0.8 give
\* two singleton clusters.
C20_IsolatedIsSingleton ==
    (ClusterDone /\ strategy = "threshold") =>
        /\ \A k \in 1..Len(articles) : Isolated(k) =>
              /\ Occurrences(articles[k].id) = 1
              /\ \E c \in 1..Len(clusters) : clusters[c] = <<articles[k].id>>
        /\ (/\ similarity_threshold = [p |-> 8, q |-> 10]
            /\ Len(articles) = 2
            /\ articles[1].embedding_vector = <<1, 1, 0>>
            /\ articles[2].embedding_vector = <<0, 1, 1>>)
              => clusters = << <<1>>, <<2>> >>

\* The scan of the two articles of cosine similarity 0.5 has returned the
\* two singletons.
C20_Witness ==
    /\ ClusterDone
    /\ strategy = "threshold"
    /\ similarity_threshold = [p |-> 8, q |-> 10]
    /\ Len(articles) = 2
    /\ articles[1].embedding_vector = <<1, 1, 0>>
    /\ articles[2].embedding_vector = <<0, 1, 1>>
    /\ clusters = << <<1>>, <<2>> >>

-----------------------------------------------------------------------------
(* HDBSCAN clustering: noise and labelled articles                         *)

\* The HDBSCAN cluster_articles has returned after calling fit_predict.
HdbscanFitted == ClusterDone /\ strategy = "hdbscan" /\ labels # << >>

\* The ids of the valid articles that fit_predict labelled l.
LabelledIds(l) == {valid_articles[k].id : k \in {j \in 1..Len(valid_articles) : labels[j] = l}}

\* C21: an article labelled noise (-1) is in no output cluster; a valid
\* article with another label is in exactly one output cluster, which holds
\* exactly the articles of its label; no output cluster is empty.
C21_NoiseDroppedLabelledGrouped ==
    HdbscanFitted =>
        /\ \A k \in 1..Len(valid_articles) :
              IF labels[k] = -1
              THEN ~InOutput(valid_articles[k].id)
              ELSE /\ Occurrences(valid_articles[k].id) = 1
                   /\ \E c \in 1..Len(clusters) :
                         /\ valid_articles[k].id \in Range(clusters[c])
                         /\ Range(clusters[c]) = LabelledIds(labels[k])
        /\ \A c \in 1..Len(clusters) : clusters[c] # << >>

\* fit_predict labelled one article noise and put others in a cluster, and
\* the clusters were returned.
C21_Witness ==
    /\ HdbscanFitted
    /\ \E k \in 1..Len(labels) : labels[k] = -1
    /\ \E k \in 1..Len(labels) : labels[k] # -1
    /\ clusters # << >>

-----------------------------------------------------------------------------
(* Similarity-threshold clustering: anchors and their neighbours           *)

ThresholdDone == ClusterDone /\ strategy = "threshold"

\* The anchors of the returned clusters, in output order.
Anchors == [c \in 1..Len(clusters) |-> Head(clusters[c])]

\* Article j reaches the threshold with anchor a.
SimilarTo(j, a) ==
    /\ j # a
    /\ Truthy(articles[j].embedding_vector)
    /\ ReachesThreshold(articles[a].embedding_vector,
                        articles[j].embedding_vector, similarity_threshold)

\* C22: an anchor collects only articles not yet assigned, so an article
\* that reaches the threshold with two anchors is a member only of the
\* cluster of the anchor that comes first in input order.
C22_FirstAnchorWins ==
    ThresholdDone =>
        \A c1, c2 \in 1..Len(clusters) : \A j \in 1..Len(articles) :
            (c1 < c2 /\ SimilarTo(j, Anchors[c1]) /\ SimilarTo(j, Anchors[c2]))
                => /\ j \in Range(clusters[c1])
                   /\ j \notin Range(clusters[c2])

\* C23: every non-anchor member of a cluster reaches the threshold with the
\* cluster's anchor, and an article that is similar to a member but below
\* the threshold with the anchor is not in that cluster.
C23_AnchorBasedNotTransitive ==
    ThresholdDone =>
        \A c \in 1..Len(clusters) :
            /\ \A m \in 2..Len(clusters[c]) : SimilarTo(clusters[c][m], Anchors[c])
            /\ \A j \in 1..Len(articles) :
                  (/\ j # Anchors[c]
                   /\ \E m \in 2..Len(clusters[c]) : SimilarTo(j, clusters[c][m])
                   /\ ~SimilarTo(j, Anchors[c]))
                      => j \notin Range(clusters[c])

\* A returned cluster has a member m, and an article similar to m but not to
\* the anchor was left out of it.
C23_Witness ==
    /\ ThresholdDone
    /\ \E c \in 1..Len(clusters) : \E j \in 1..Len(articles) :
          /\ j # Anchors[c]
          /\ \E m \in 2..Len(clusters[c]) : SimilarTo(j, clusters[c][m])
          /\ ~SimilarTo(j, Anchors[c])
          /\ j \notin Range(clusters[c])

-----------------------------------------------------------------------------
(* HDBSCAN clustering: the pre-filter                                      *)

\* The HDBSCAN cluster_articles has applied its filter to a non-empty input.
HdbscanFiltered == strategy = "hdbscan" /\ cluster_pc \in {"fit", "done"} /\ articles # << >>

\* The ids handed to the clustering step.
PassedOn == {valid_articles[k].id : k \in 1..Len(valid_articles)}

\* C24: the pre-filter removes exactly the articles whose embedding is
\* missing or all-zero; an article whose embedding has a non-zero component
\* is passed on to the clustering step.
C24_FilterRemovesExactlySentinels ==
    HdbscanFiltered =>
        \A k \in 1..Len(articles) :
            (articles[k].id \in PassedOn)
                <=> ~(HasMissingEmbedding(articles[k]) \/ HasZeroEmbedding(articles[k]))

-----------------------------------------------------------------------------
(* Batching is greedy                                                      *)

\* The estimate of the article at position k of the input.
EstimateOf(k) == TruncateEmbedContents(embed_articles[k], max_content_length) \div 4

\* C25: a batch is closed only when adding the next article would exceed a
\* limit: of two consecutive batches, the earlier one already holds
\* max_batch_size articles, or its estimated token sum plus the estimate of
\* the first article of the later one exceeds 18000.
C25_BatchesAreGreedy ==
    Batched =>
        \A b \in 1..(Len(batches) - 1) :
            \/ Len(batches[b]) >= max_batch_size
            \/ BatchTokenSum(batches[b]) + EstimateOf(Head(batches[b + 1])) > 18000

\* Two consecutive batches, the earlier one closed below max_batch_size by
\* the token budget.
C25_Witness ==
    /\ Batched
    /\ max_batch_size = 2
    /\ \E b \in 1..(Len(batches) - 1) :
          /\ Len(batches[b]) < max_batch_size
          /\ BatchTokenSum(batches[b]) + EstimateOf(Head(batches[b + 1])) > 18000
          /\ BatchTokenSum(batches[b]) <= 18000

-----------------------------------------------------------------------------
(* Embeddings stay with their articles                                     *)

\* C26: with a provider that preserves input order,
\* _get_embeddings_individually returns one entry per article of the batch
\* in input order, the all-zero sentinel in the slot of each failed or empty
\* call, and map_embeddings never gives an article the embedding computed
\* from another article's text, on the batch path and on the fallback path.
C26_EmbeddingsStayAligned ==
    /\ \A n \in 1..Len(batch_log) :
          LET e == batch_log[n]
              out == GetEmbeddingsIndividually(e.batch, e.singles)
          IN  e.singles # << >> =>
                /\ Len(out) = Len(e.batch)
                /\ \A k \in 1..Len(e.batch) :
                      out[k] = IF e.singles[k] = "ok"
                               THEN ProviderVector(embed_articles[e.batch[k]].id)
                               ELSE Sentinel768
    /\ \A a, b \in 1..Len(embed_articles) :
          a # b => embed_articles[a].embedding_vector # ProviderVector(embed_articles[b].id)

\* One batch was embedded by one provider call, and a batch of two went
\* through the individual calls with the first call failing and the second
\* succeeding.
C26_Witness ==
    /\ \E n \in 1..Len(batch_log) :
          LET e == batch_log[n]
          IN  /\ e.outcome = "ok"
              /\ \A k \in 1..Len(e.batch) :
                    embed_articles[e.batch[k]].embedding_vector = ProviderVector(e.batch[k])
    /\ \E n \in 1..Len(batch_log) :
          LET e == batch_log[n]
          IN  /\ e.singles = <<"error", "ok">>
              /\ embed_articles[e.batch[1]].embedding_vector = Sentinel768
              /\ embed_articles[e.batch[2]].embedding_vector = ProviderVector(e.batch[2])

-----------------------------------------------------------------------------
(* The bulk run covers every user                                          *)

\* The sampled articles that have an embedding (every article with a
\* section is sampled while a section has at most SECTION_MEAN_SAMPLE_SIZE).
SampledEmbedded == DOMAIN processed_article \cap DOMAIN p_article_embedding

\* The cold-start vector of the bulk run when a sampled article has an
\* embedding: the preference-weighted mean of the section means, else the
\* mean of the sampled embeddings.
BulkColdStart(u) ==
    LET ps == PreferredSections(u, BulkSectionMeans)
        sampled == SortedSeq(SampledEmbedded)
    IN  IF ps # << >>
        THEN ColdStartTiers(u, BulkSectionMeans)
        ELSE RatMean([k \in 1..Len(sampled) |-> RatOfList(p_article_embedding[sampled[k]])])

\* C27: when at least one sampled article has an embedding, the mapping
\* generate_all_user_embeddings returns has an embedding for every user id
\* of get_all_user_ids: the interaction-based one when it is computable,
\* never overwritten by the cold-start step, and a cold-start one otherwise.
C27_EveryUserHasOneEmbedding ==
    (UserDone /\ SampledEmbedded # {}) =>
        /\ GetAllUserIds \subseteq DOMAIN bulk_result
        /\ \A u \in GetAllUserIds :
              bulk_result[u] = IF BulkEmbOf(u) # None
                               THEN Bulk_Postprocess(BulkEmbOf(u))
                               ELSE Bulk_Postprocess(BulkColdStart(u))

\* The bulk run returned an interaction-based embedding for one user and a
\* different cold-start embedding for a user without interactions.
C27_Witness ==
    /\ UserDone
    /\ SampledEmbedded # {}
    /\ \E u, v \in GetAllUserIds :
          /\ BulkEmbOf(u) # None
          /\ bulk_result[u] = Bulk_Postprocess(BulkEmbOf(u))
          /\ bulk_result[u] # Bulk_Postprocess(BulkColdStart(u))
          /\ Interacted(v) = {}
          /\ bulk_result[v] = Bulk_Postprocess(BulkColdStart(v))

-----------------------------------------------------------------------------
(* cluster_summarizer: process_articles and the save of its result         *)

MaxSourceArticles == 2

MaxKeywords == 2

\* What ImageClient._get_image_size returns for a thumbnail: (width, height),
\* (0, 0) for an image that cannot be loaded.
ImageSizes == { <<0, 0>>, <<1, 1>>, <<2, 1>>, <<2, 2>> }

\* The rows get_articles can return: article k has thumbnail URL k.
SourceArticleLists ==
    { [k \in 1..Len(zs) |-> [id |-> k, thumbnail_url |-> k, image_size |-> zs[k]]] :
        zs \in SeqsUpTo(ImageSizes, MaxSourceArticles) }

KeywordPool == {"k1", "k2"}

\* ImageClient.get_highest_resolution_image from position k on; 0 is None.
RECURSIVE HighestResolutionLoop(_, _, _, _)
HighestResolutionLoop(images, k, max_resolution, best_url) ==
    IF k > Len(images) THEN best_url
    ELSE LET resolution == images[k].image_size[1] * images[k].image_size[2]
         IN  IF resolution > max_resolution
             THEN HighestResolutionLoop(images, k + 1, resolution, images[k].thumbnail_url)
             ELSE HighestResolutionLoop(images, k + 1, max_resolution, best_url)

GetHighestResolutionImage(images) == HighestResolutionLoop(images, 1, 0, 0)

\* connection.commit(): the uncommitted writes become committed rows.
Commit(db, tx) ==
    [processed |-> db.processed \cup tx.processed,
     keywords  |-> db.keywords \cup tx.keywords,
     mappings  |-> db.mappings \cup tx.mappings,
     marked    |-> db.marked \cup tx.marked]

\* How a statement or a remote call ends.
CallOutcomes == {"ok", "raise"}

\* An exception leaves save_processed_article_with_references: the
\* connection is closed and its uncommitted writes are lost.
SaveFails ==
    /\ summarizer_tx' = NoRows
    /\ summarizer_pc' = "save_failed"
    /\ UNCHANGED <<source_articles, ai_keywords, best_thumbnail_url, new_thumbnail_url,
                   summarizer_db, keyword_idx, mapping_idx, bq_uploaded>>

\* process_articles up to the call of save_processed_article_with_references:
\* get_articles, generate_summary, the best thumbnail, the ProcessedArticle.
ProcessArticles ==
    /\ summarizer_pc = "begin"
    /\ \E outcome \in CallOutcomes :
          IF source_articles = << >> \/ outcome = "raise"
          THEN /\ summarizer_pc' = "failed"
               /\ UNCHANGED <<best_thumbnail_url, new_thumbnail_url>>
          ELSE LET best == GetHighestResolutionImage(source_articles)
               IN  /\ best_thumbnail_url' = best
                   /\ new_thumbnail_url' =
                         IF best # 0 THEN best ELSE source_articles[1].thumbnail_url
                   /\ summarizer_pc' = "insert"
    /\ UNCHANGED <<source_articles, ai_keywords, summarizer_db, summarizer_tx,
                   keyword_idx, mapping_idx, bq_uploaded, nonSummarizerVars>>

\* The connection and INSERT INTO processed_article.
SaveInsert ==
    /\ summarizer_pc = "insert"
    /\ \E outcome \in CallOutcomes :
          IF outcome = "raise" THEN SaveFails
          ELSE /\ summarizer_tx' =
                     [summarizer_tx EXCEPT !.processed =
                         {[thumbnail_url |-> source_articles[1].thumbnail_url]}]
               /\ summarizer_pc' = IF ai_keywords = << >> THEN "update" ELSE "keywords"
               /\ UNCHANGED <<source_articles, ai_keywords, best_thumbnail_url,
                              new_thumbnail_url, summarizer_db, keyword_idx, mapping_idx,
                              bq_uploaded>>
    /\ UNCHANGED nonSummarizerVars

\* _get_or_create_keyword_id for one keyword of the comprehension:
\* _get_keyword_id, and _create_keyword (INSERT and connection.commit() on
\* the connection of the save) when the keyword has no row.
SaveKeyword ==
    /\ summarizer_pc = "keywords"
    /\ LET keyword == ai_keywords[keyword_idx]
           known == keyword \in summarizer_db.keywords \cup summarizer_tx.keywords
       IN  \E outcome \in CallOutcomes :
              IF outcome = "raise" THEN SaveFails
              ELSE /\ IF known
                      THEN UNCHANGED <<summarizer_db, summarizer_tx>>
                      ELSE /\ summarizer_db' =
                                 Commit(summarizer_db,
                                        [summarizer_tx EXCEPT !.keywords = @ \cup {keyword}])
                           /\ summarizer_tx' = NoRows
                   /\ keyword_idx' = keyword_idx + 1
                   /\ summarizer_pc' =
                         IF keyword_idx = Len(ai_keywords) THEN "mapping" ELSE "keywords"
                   /\ UNCHANGED <<source_articles, ai_keywords, best_thumbnail_url,
                                  new_thumbnail_url, mapping_idx, bq_uploaded>>
    /\ UNCHANGED nonSummarizerVars

\* INSERT INTO keyword_article_mapping for one keyword id.
SaveMapping ==
    /\ summarizer_pc = "mapping"
    /\ \E outcome \in CallOutcomes :
          IF outcome = "raise" THEN SaveFails
          ELSE /\ summarizer_tx' =
                     [summarizer_tx EXCEPT !.mappings = @ \cup {ai_keywords[mapping_idx]}]
               /\ mapping_idx' = mapping_idx + 1
               /\ summarizer_pc' =
                     IF mapping_idx = Len(ai_keywords) THEN "update" ELSE "mapping"
               /\ UNCHANGED <<source_articles, ai_keywords, best_thumbnail_url,
                              new_thumbnail_url, summarizer_db, keyword_idx, bq_uploaded>>
    /\ UNCHANGED nonSummarizerVars

\* UPDATE article SET processed_id, is_processed = TRUE.
SaveUpdate ==
    /\ summarizer_pc = "update"
    /\ \E outcome \in CallOutcomes :
          IF outcome = "raise" THEN SaveFails
          ELSE /\ summarizer_tx' =
                     [summarizer_tx EXCEPT !.marked =
                         {source_articles[k].id : k \in 1..Len(source_articles)}]
               /\ summarizer_pc' = "commit"
               /\ UNCHANGED <<source_articles, ai_keywords, best_thumbnail_url,
                              new_thumbnail_url, summarizer_db, keyword_idx, mapping_idx,
                              bq_uploaded>>
    /\ UNCHANGED nonSummarizerVars

\* The final connection.commit() and the return of the new id.
SaveCommit ==
    /\ summarizer_pc = "commit"
    /\ \E outcome \in CallOutcomes :
          IF outcome = "raise" THEN SaveFails
          ELSE /\ summarizer_db' = Commit(summarizer_db, summarizer_tx)
               /\ summarizer_tx' = NoRows
               /\ summarizer_pc' = "embed"
               /\ UNCHANGED <<source_articles, ai_keywords, best_thumbnail_url,
                              new_thumbnail_url, keyword_idx, mapping_idx, bq_uploaded>>
    /\ UNCHANGED nonSummarizerVars

\* get_embeddings and upload_embedding_to_bq, and the return.
UploadEmbedding ==
    /\ summarizer_pc = "embed"
    /\ \E outcome \in CallOutcomes :
          /\ bq_uploaded' = (outcome = "ok")
          /\ summarizer_pc' = IF outcome = "ok" THEN "done" ELSE "upload_failed"
    /\ UNCHANGED <<source_articles, ai_keywords, best_thumbnail_url, new_thumbnail_url,
                   summarizer_db, summarizer_tx, keyword_idx, mapping_idx,
                   nonSummarizerVars>>

SummarizerInit ==
    /\ source_articles \in SourceArticleLists
    /\ ai_keywords \in SeqsUpTo(KeywordPool, MaxKeywords)
    /\ best_thumbnail_url = 0
    /\ new_thumbnail_url = 0
    /\ \E known \in SUBSET KeywordPool : summarizer_db = [NoRows EXCEPT !.keywords = known]
    /\ summarizer_tx = NoRows
    /\ keyword_idx = 1
    /\ mapping_idx = 1
    /\ bq_uploaded = FALSE
    /\ summarizer_pc = "begin"
    /\ ClusterIdle
    /\ EmbedIdle
    /\ UserIdle
    /\ EntryIdle
    /\ StoreIdle

SummarizerNext ==
    \/ ProcessArticles \/ SaveInsert \/ SaveKeyword \/ SaveMapping
    \/ SaveUpdate \/ SaveCommit \/ UploadEmbedding

SpecSummarizer == SummarizerInit /\ [][SummarizerNext]_vars

-----------------------------------------------------------------------------
(* Claims about the summarizer's save                                      *)

\* save_processed_article_with_references has returned or raised.
SaveOver == summarizer_pc \in {"save_failed", "embed", "done", "upload_failed"}

\* C28: the processed_article insert, the keyword mappings and the update
\* that marks the source articles are committed together or not at all, and
\* after a failed save no processed_article row of the call is committed.
C28_SaveIsOneTransaction ==
    /\ SaveOver =>
          (summarizer_db.processed # {}
              <=> /\ summarizer_db.mappings = Range(ai_keywords)
                  /\ summarizer_db.marked =
                        {source_articles[k].id : k \in 1..Len(source_articles)})
    /\ summarizer_pc = "save_failed" => summarizer_db.processed = {}

\* width * height of the image behind a thumbnail URL.
ResolutionOf(url) ==
    LET a == CHOOSE a \in Range(source_articles) : a.thumbnail_url = url
    IN  a.image_size[1] * a.image_size[2]

\* C29: the stored processed article carries the thumbnail URL of the
\* highest-resolution image among the source articles' thumbnails, and the
\* first article's thumbnail only when no image could be measured.
C29_StoredThumbnailIsBest ==
    summarizer_pc \in {"embed", "done", "upload_failed"} =>
        \A row \in summarizer_db.processed :
            LET sizes == {ResolutionOf(a.thumbnail_url) : a \in Range(source_articles)}
            IN  IF \E r \in sizes : r > 0
                THEN \A r \in sizes : ResolutionOf(row.thumbnail_url) >= r
                ELSE row.thumbnail_url = source_articles[1].thumbnail_url

-----------------------------------------------------------------------------
(* src/src/guardian_fetcher: DatabaseClient.store_articles                 *)

MaxFetched == 3

\* Headlines of the fetched articles and of the rows already stored.
Headlines == {"h1", "h2"}

\* How article_exists ends for one article: its SELECT runs, or raises.
ExistsOutcomes == {"ok", "raise"}

\* How insert_article ends: the row is inserted, or the INSERT raises and
\* insert_article returns False.
InsertOutcomes == {"inserted", "rejected"}

\* The SELECT COUNT(*) of article_exists, on the connection of the call: it
\* sees the committed rows and the rows this call inserted.
ArticleExists(title) == title \in article_table \cup store_tx

\* The except branch of store_articles: rollback, return stored_count.
StoreRollsBack ==
    /\ store_tx' = {}
    /\ store_returned' = stored_count
    /\ store_pc' = "returned"
    /\ UNCHANGED <<fetched, article_table_before, article_table, store_i, stored_count>>

\* store_articles up to the loop: the early return and get_connection.
StoreConnect ==
    /\ store_pc = "begin"
    /\ \E outcome \in CallOutcomes :
          IF fetched = << >> \/ outcome = "raise"
          THEN /\ store_returned' = 0
               /\ store_pc' = "returned"
          ELSE /\ store_pc' = "loop"
               /\ UNCHANGED store_returned
    /\ UNCHANGED <<fetched, article_table_before, article_table, store_tx, store_i,
                   stored_count, nonStoreVars>>

\* One iteration of `for article in articles`.
StoreArticle ==
    /\ store_pc = "loop"
    /\ store_i <= Len(fetched)
    /\ LET title == fetched[store_i]
       IN  \E exists \in ExistsOutcomes, insert \in InsertOutcomes :
              IF exists = "raise" THEN StoreRollsBack
              ELSE /\ IF ~ArticleExists(title) /\ insert = "inserted"
                      THEN /\ store_tx' = store_tx \cup {title}
                           /\ stored_count' = stored_count + 1
                      ELSE UNCHANGED <<store_tx, stored_count>>
                   /\ store_i' = store_i + 1
                   /\ store_pc' = IF store_i = Len(fetched) THEN "commit" ELSE "loop"
                   /\ UNCHANGED <<fetched, article_table_before, article_table,
                                  store_returned>>
    /\ UNCHANGED nonStoreVars

\* conn.commit() and the return.
StoreCommit ==
    /\ store_pc = "commit"
    /\ \E outcome \in CallOutcomes :
          IF outcome = "raise" THEN StoreRollsBack
          ELSE /\ article_table' = article_table \cup store_tx
               /\ store_tx' = {}
               /\ store_returned' = stored_count
               /\ store_pc' = "returned"
               /\ UNCHANGED <<fetched, article_table_before, store_i, stored_count>>
    /\ UNCHANGED nonStoreVars

StoreInit ==
    /\ fetched \in SeqsUpTo(Headlines, MaxFetched)
    /\ article_table_before \in SUBSET Headlines
    /\ article_table = article_table_before
    /\ store_tx = {}
    /\ store_i = 1
    /\ stored_count = 0
    /\ store_returned = -1
    /\ store_pc = "begin"
    /\ ClusterIdle
    /\ EmbedIdle
    /\ UserIdle
    /\ EntryIdle
    /\ SummarizerIdle

StoreNext == StoreConnect \/ StoreArticle \/ StoreCommit

SpecStore == StoreInit /\ [][StoreNext]_vars

-----------------------------------------------------------------------------
(* Claims about store_articles                                             *)

\* C30: the count store_articles returns is the number of articles of the
\* call that are committed in the article table when it returns, also when
\* an exception in the middle of the loop triggers a rollback.
C30_CountIsCommittedRows ==
    store_pc = "returned" =>
        store_returned = Cardinality(article_table \ article_table_before)

=============================================================================
